---- MODULE Spec2Model ----
(***************************************************************************)
(* Orchestration core of the query-answering agent: the router, the        *)
(* completion client with its retry loop, the retrieval executor, the      *)
(* chart and image tools, the streaming orchestrator (processQueryStream)  *)
(* and the LangGraph workflow (processQuery).                              *)
(*                                                                         *)
(* A JavaScript string is a sequence of one-character strings, so that     *)
(* toLowerCase, includes, RegExp tests and JSON.parse are computed on the  *)
(* characters as the code computes them.                                   *)
(***************************************************************************)
EXTENDS Integers, Sequences, FiniteSets, TLC

(***************************************************************************)
(* Bounds of the model.                                                    *)
(***************************************************************************)
MaxChunks == 1
MaxObjects == 2

(***************************************************************************)
(* JavaScript string primitives.                                           *)
(***************************************************************************)
UpperChars == <<"A","B","C","D","E","F","G","H","I","J","K","L","M","N","O","P","Q","R","S","T","U","V","W","X","Y","Z">>
LowerChars == <<"a","b","c","d","e","f","g","h","i","j","k","l","m","n","o","p","q","r","s","t","u","v","w","x","y","z">>

ToLowerChar(c) ==
  IF \E i \in 1..26 : UpperChars[i] = c
    THEN LowerChars[CHOOSE i \in 1..26 : UpperChars[i] = c]
    ELSE c

toLowerCase(s) == [i \in 1..Len(s) |-> ToLowerChar(s[i])]

\* s.startsWith(w, i - 1): w occurs in s at the 1-based position i
OccursAt(s, w, i) ==
  /\ i >= 1
  /\ i + Len(w) - 1 <= Len(s)
  /\ \A j \in 1..Len(w) : s[i + j - 1] = w[j]

includes(s, w) == \E i \in 1..(Len(s) + 1) : OccursAt(s, w, i)

IsDigit(c) == c \in {"0","1","2","3","4","5","6","7","8","9"}
IsSpace(c) == c \in {" ", "\t", "\n", "\r"}
IsOperator(c) == c \in {"+", "-", "*", "/"}
IsWordChar(c) ==
  \/ IsDigit(c)
  \/ c = "_"
  \/ \E i \in 1..26 : UpperChars[i] = c \/ LowerChars[i] = c

\* /\d+\s*[\+\-\*\/]\s*\d+/.test(q)
ArithmeticPattern(q) ==
  \E i \in 1..Len(q), o \in 1..Len(q), k \in 1..Len(q) :
    /\ i < o /\ o < k
    /\ IsDigit(q[i]) /\ IsOperator(q[o]) /\ IsDigit(q[k])
    /\ \A m \in (i + 1)..(o - 1) : IsSpace(q[m])
    /\ \A m \in (o + 1)..(k - 1) : IsSpace(q[m])

CueWords == {<<"t","h","e","n">>, <<"a","f","t","e","r">>, <<"f","i","r","s","t">>, <<"n","e","x","t">>}

\* /\b(then|after|first|next)\b/i.test(q)
wantsSequential(q) ==
  \E w \in CueWords : \E i \in 1..Len(q) :
    /\ OccursAt(toLowerCase(q), w, i)
    /\ (i = 1 \/ ~IsWordChar(q[i - 1]))
    /\ (i + Len(w) > Len(q) \/ ~IsWordChar(q[i + Len(w)]))

(***************************************************************************)
(* JavaScript values: t is the type tag, s the text of a string, number or *)
(* boolean, a the elements of an array or the members [k, v] of an object. *)
(***************************************************************************)
JUndefined == [t |-> "undefined", s |-> <<>>, a |-> <<>>]
JNull == [t |-> "null", s |-> <<>>, a |-> <<>>]
JStr(s) == [t |-> "str", s |-> s, a |-> <<>>]
JNum(s) == [t |-> "num", s |-> s, a |-> <<>>]
JBool(s) == [t |-> "bool", s |-> s, a |-> <<>>]
JArr(a) == [t |-> "arr", s |-> <<>>, a |-> a]
JObj(a) == [t |-> "obj", s |-> <<>>, a |-> a]

\* ToBoolean(v), as used by || and by if
Truthy(v) ==
  CASE v.t = "undefined" -> FALSE
    [] v.t = "null" -> FALSE
    [] v.t = "bool" -> v.s = <<"t","r","u","e">>
    [] v.t = "num" -> v.s \notin {<<"0">>, <<"-","0">>}
    [] v.t = "str" -> v.s # <<>>
    [] OTHER -> TRUE

\* v === 'w' for a string literal w
StrictEqualsStr(v, w) == v.t = "str" /\ v.s = w

\* v.key for a value v that is neither null nor undefined
GetProp(v, key) ==
  IF v.t = "obj" /\ \E i \in 1..Len(v.a) : v.a[i].k = key
    THEN LET last == CHOOSE i \in 1..Len(v.a) :
                       /\ v.a[i].k = key
                       /\ \A j \in (i + 1)..Len(v.a) : v.a[j].k # key
         IN v.a[last].v
    ELSE JUndefined

RECURSIVE ToStringThrows(_)
\* ToString(v) throws a TypeError: v is an object with an own member toString
\* (no JSON value is callable, and valueOf gives back the object), or an array
\* whose join meets such an element
ToStringThrows(v) ==
  \/ v.t = "obj" /\ \E i \in 1..Len(v.a) : v.a[i].k = <<"t","o","S","t","r","i","n","g">>
  \/ v.t = "arr" /\ \E i \in 1..Len(v.a) : ToStringThrows(v.a[i])

(***************************************************************************)
(* JSON.parse, by recursive descent over the characters.  The grammar is   *)
(* JSON without string escapes, fractions and exponents.                   *)
(***************************************************************************)
ParseFail == [ok |-> FALSE, v |-> JUndefined, i |-> 0]
ParseOk(v, i) == [ok |-> TRUE, v |-> v, i |-> i]

RECURSIVE SkipWs(_, _)
SkipWs(s, i) ==
  IF i <= Len(s) /\ IsSpace(s[i]) THEN SkipWs(s, i + 1) ELSE i

RECURSIVE DigitsEnd(_, _)
DigitsEnd(s, i) ==
  IF i <= Len(s) /\ IsDigit(s[i]) THEN DigitsEnd(s, i + 1) ELSE i

RECURSIVE QuoteAt(_, _)
\* position of the closing quote at or after i, 0 if the string is unterminated
QuoteAt(s, i) ==
  IF i > Len(s) \/ s[i] = "\\" \/ s[i] = "\n" \/ s[i] = "\t" \/ s[i] = "\r" THEN 0
  ELSE IF s[i] = "\"" THEN i
  ELSE QuoteAt(s, i + 1)

ParseString(s, i) ==
  IF i > Len(s) \/ s[i] # "\"" THEN ParseFail
  ELSE LET q == QuoteAt(s, i + 1)
       IN IF q = 0 THEN ParseFail
          ELSE ParseOk(JStr(SubSeq(s, i + 1, q - 1)), q + 1)

ParseNumber(s, i) ==
  LET d == IF i <= Len(s) /\ s[i] = "-" THEN i + 1 ELSE i
      e == IF d <= Len(s) /\ s[d] = "0" THEN d + 1 ELSE DigitsEnd(s, d)
  IN IF e = d \/ (e <= Len(s) /\ s[e] \in {".", "e", "E"}) THEN ParseFail
     ELSE ParseOk(JNum(SubSeq(s, i, e - 1)), e)

RECURSIVE ParseValue(_, _)
RECURSIVE ParseElements(_, _, _)
RECURSIVE ParseMembers(_, _, _)

ParseElements(s, i, acc) ==
  LET r == ParseValue(s, i)
      j == SkipWs(s, r.i)
  IN IF ~r.ok \/ j > Len(s) THEN ParseFail
     ELSE IF s[j] = "," THEN ParseElements(s, j + 1, Append(acc, r.v))
     ELSE IF s[j] = "]" THEN ParseOk(JArr(Append(acc, r.v)), j + 1)
     ELSE ParseFail

ParseMembers(s, i, acc) ==
  LET k == ParseString(s, SkipWs(s, i))
      c == SkipWs(s, k.i)
      r == ParseValue(s, c + 1)
      j == SkipWs(s, r.i)
      m == Append(acc, [k |-> k.v.s, v |-> r.v])
  IN IF ~k.ok \/ c > Len(s) \/ s[c] # ":" THEN ParseFail
     ELSE IF ~r.ok \/ j > Len(s) THEN ParseFail
     ELSE IF s[j] = "," THEN ParseMembers(s, j + 1, m)
     ELSE IF s[j] = "}" THEN ParseOk(JObj(m), j + 1)
     ELSE ParseFail

ParseValue(s, i0) ==
  LET i == SkipWs(s, i0)
      n == SkipWs(s, i + 1)
  IN IF i > Len(s) THEN ParseFail
     ELSE IF s[i] = "{"
       THEN IF n <= Len(s) /\ s[n] = "}" THEN ParseOk(JObj(<<>>), n + 1)
            ELSE ParseMembers(s, n, <<>>)
     ELSE IF s[i] = "["
       THEN IF n <= Len(s) /\ s[n] = "]" THEN ParseOk(JArr(<<>>), n + 1)
            ELSE ParseElements(s, n, <<>>)
     ELSE IF s[i] = "\"" THEN ParseString(s, i)
     ELSE IF s[i] = "-" \/ IsDigit(s[i]) THEN ParseNumber(s, i)
     ELSE IF OccursAt(s, <<"n","u","l","l">>, i) THEN ParseOk(JNull, i + 4)
     ELSE IF OccursAt(s, <<"t","r","u","e">>, i) THEN ParseOk(JBool(<<"t","r","u","e">>), i + 4)
     ELSE IF OccursAt(s, <<"f","a","l","s","e">>, i) THEN ParseOk(JBool(<<"f","a","l","s","e">>), i + 5)
     ELSE ParseFail

\* JSON.parse(s): ok = FALSE stands for the SyntaxError it throws
JSONparse(s) ==
  LET r == ParseValue(s, 1)
  IN IF r.ok /\ SkipWs(s, r.i) > Len(s)
       THEN [ok |-> TRUE, v |-> r.v]
       ELSE [ok |-> FALSE, v |-> JUndefined]

(***************************************************************************)
(* Inputs: the query texts, the attachment argument, and the texts the     *)
(* completion model can answer the router with.                            *)
(***************************************************************************)
Q_ARITH == <<"W","h","a","t"," ","i","s"," ","1","2"," ","+"," ","3","0","?">>
Q_PIE == <<"S","h","o","w"," ","m","e"," ","a"," ","p","i","e"," ","c","h","a","r","t">>
Q_THEN == <<"s","a","l","e","s"," ","F","i","r","s","t",","," ","t","h","e","n"," ","a"," ","l","i","n","e"," ","c","h","a","r","t">>

Queries == {Q_ARITH, Q_PIE, Q_THEN}

\* imageUrl?: string -- the absent argument, the empty string, an upload URL
ImageUrls == {JUndefined, JStr(<<>>), JStr(<<"h","t","t","p",":","/","/","h","/","u","p","l","o","a","d","s","/","a",".","p","n","g">>)}

R_RAG == <<"{","\"","t","o","o","l","s","\"",":"," ","[","\"","r","a","g","\"","]",","," ","\"","r","e","a","s","o","n","i","n","g","\"",":"," ","\"","k","b","\"","}">>
R_CHART == <<"{","\"","t","o","o","l","s","\"",":","[","\"","c","h","a","r","t","\"","]","}">>
R_BOTH == <<"{","\"","t","o","o","l","s","\"",":","[","\"","b","o","t","h","\"","]","}">>
R_DIRECT == <<"{","\"","t","o","o","l","s","\"",":","[","\"","d","i","r","e","c","t","\"","]","}">>
R_IMAGE == <<"{","\"","t","o","o","l","s","\"",":","[","\"","i","m","a","g","e","\"","]","}">>
R_RAG_BOTH == <<"{","\"","t","o","o","l","s","\"",":","[","\"","r","a","g","\"",",","\"","b","o","t","h","\"","]","}">>
R_VIDEO == <<"{","\"","t","o","o","l","s","\"",":","[","\"","v","i","d","e","o","\"","]","}">>
R_SCALAR == <<"{","\"","t","o","o","l","s","\"",":","\"","c","h","a","r","t","\"","}">>
R_EMPTY_ARRAY == <<"{","\"","t","o","o","l","s","\"",":","[","]","}">>
R_EMPTY_STRING == <<"{","\"","t","o","o","l","s","\"",":","\"","\"",",","\"","r","e","a","s","o","n","i","n","g","\"",":","\"","\"","}">>
R_NO_TOOLS == <<"{","\"","r","e","a","s","o","n","i","n","g","\"",":","\"","c","h","a","r","t","\"","}">>
R_NULL == <<"n","u","l","l">>
R_NUMBER == <<"4","2">>
R_PROSE == <<"H","e","r","e"," ","i","s"," ","t","h","e"," ","J","S","O","N",":","\n","{","\"","t","o","o","l","s","\"",":","[","\"","r","a","g","\"","]","}">>
R_TRUNCATED == <<"{","\"","t","o","o","l","s","\"",":","[","\"","d","i","r","e","c","t","\"">>
R_TEXT_IMAGE == <<"U","s","e"," ","t","h","e"," ","I","M","A","G","E"," ","t","o","o","l",","," ","n","o","t"," ","c","h","a","r","t">>
R_TEXT_CHART == <<"a"," ","C","h","a","r","t",","," ","o","r"," ","d","i","r","e","c","t">>
R_TEXT_DIRECT == <<"D","i","r","e","c","t",".">>
R_TEXT_NONE == <<"I"," ","c","a","n","n","o","t"," ","d","e","c","i","d","e">>
R_TOSTRING == <<"{","\"","t","o","o","l","s","\"",":","[","{","\"","t","o","S","t","r","i","n","g","\"",":","n","u","l","l","}","]","}">>

ModelResponses ==
  {R_RAG, R_CHART, R_BOTH, R_DIRECT, R_IMAGE, R_RAG_BOTH, R_VIDEO, R_SCALAR,
   R_EMPTY_ARRAY, R_EMPTY_STRING, R_NO_TOOLS, R_NULL, R_NUMBER, R_PROSE,
   R_TRUNCATED, R_TEXT_IMAGE, R_TEXT_CHART, R_TEXT_DIRECT, R_TEXT_NONE,
   R_TOSTRING}

(***************************************************************************)
(* Router.                                                                 *)
(***************************************************************************)
RAG == <<"r","a","g">>
CHART == <<"c","h","a","r","t">>
BOTH == <<"b","o","t","h">>
DIRECT == <<"d","i","r","e","c","t">>
IMAGE == <<"i","m","a","g","e">>

Decision(tools, reasoning) == [tools |-> tools, reasoning |-> reasoning]

\* faulty variant of routerFallback: 'chart' is looked for before 'image'
routerFallbackChartFirst(query, response) ==
  IF includes(toLowerCase(response), CHART)
    THEN Decision(<<JStr(CHART)>>, JStr(<<"Q","u","e","r","y"," ","m","e","n","t","i","o","n","s"," ","v","i","s","u","a","l","i","z","a","t","i","o","n">>))
  ELSE IF includes(toLowerCase(response), IMAGE)
    THEN Decision(<<JStr(IMAGE)>>, JStr(<<"Q","u","e","r","y"," ","m","e","n","t","i","o","n","s"," ","i","m","a","g","e"," ","g","e","n","e","r","a","t","i","o","n">>))
  ELSE IF includes(toLowerCase(response), DIRECT) \/ ArithmeticPattern(query)
    THEN Decision(<<JStr(DIRECT)>>, JStr(<<"M","a","t","h","/","c","o","d","e"," ","t","a","s","k">>))
  ELSE Decision(<<JStr(RAG)>>, JStr(<<"I","n","f","o","r","m","a","t","i","o","n","a","l"," ","q","u","e","r","y"," ","-"," ","c","h","e","c","k","i","n","g"," ","k","n","o","w","l","e","d","g","e"," ","b","a","s","e">>))

\* the catch block of routerNode: keyword-based routing
routerFallback(query, response) ==
  IF includes(toLowerCase(response), IMAGE)
    THEN Decision(<<JStr(IMAGE)>>, JStr(<<"Q","u","e","r","y"," ","m","e","n","t","i","o","n","s"," ","i","m","a","g","e"," ","g","e","n","e","r","a","t","i","o","n">>))
  ELSE IF includes(toLowerCase(response), CHART)
    THEN Decision(<<JStr(CHART)>>, JStr(<<"Q","u","e","r","y"," ","m","e","n","t","i","o","n","s"," ","v","i","s","u","a","l","i","z","a","t","i","o","n">>))
  ELSE IF includes(toLowerCase(response), DIRECT) \/ ArithmeticPattern(query)
    THEN Decision(<<JStr(DIRECT)>>, JStr(<<"M","a","t","h","/","c","o","d","e"," ","t","a","s","k">>))
  ELSE Decision(<<JStr(RAG)>>, JStr(<<"I","n","f","o","r","m","a","t","i","o","n","a","l"," ","q","u","e","r","y"," ","-"," ","c","h","e","c","k","i","n","g"," ","k","n","o","w","l","e","d","g","e"," ","b","a","s","e">>))

\* the try block of routerNode, for a parsed value that has properties
routerParsed(parsed) ==
  LET ptools == GetProp(parsed, <<"t","o","o","l","s">>)
      preasoning == GetProp(parsed, <<"r","e","a","s","o","n","i","n","g">>)
      tools == IF ptools.t = "arr"
                 THEN ptools.a
                 ELSE << IF Truthy(ptools) THEN ptools ELSE JStr(RAG) >>
  IN Decision(tools,
              IF Truthy(preasoning) THEN preasoning ELSE JStr(<<"R","o","u","t","e","d"," ","b","y"," ","L","L","M">>))

\* faulty variant of routerNode: the fallback tests the arithmetic pattern on
\* the response instead of the query
routerNodePatternOnResponse(query, response) ==
  LET p == JSONparse(response)
  IN IF p.ok /\ p.v.t # "null" THEN routerParsed(p.v)
     ELSE routerFallback(response, response)

\* routerNode, from the model's response to the decision; reading a property
\* of null throws a TypeError inside the try block
routerNode(query, response) ==
  LET p == JSONparse(response)
  IN IF p.ok /\ p.v.t # "null"
       THEN routerParsed(p.v)
       ELSE routerFallback(query, response)

\* printRouting('Router', decision.tools.join(', '), decision.reasoning), after
\* the try / catch of routerNode: whether the join of the labels or the
\* template literal of the reasoning throws a TypeError
printRoutingThrows(d) ==
  \/ ToStringThrows(JArr(d.tools))
  \/ Truthy(d.reasoning) /\ ToStringThrows(d.reasoning)

E_PRIMITIVE == [isError |-> TRUE, message |-> <<"C","a","n","n","o","t"," ","c","o","n","v","e","r","t"," ","o","b","j","e","c","t"," ","t","o"," ","p","r","i","m","i","t","i","v","e"," ","v","a","l","u","e">>]

\* routeDecision of the workflow
routeDecision(decision) ==
  IF Len(decision.tools) = 0 THEN JUndefined ELSE decision.tools[1]

(***************************************************************************)
(* Completion client (GeminiClient): failures and the retry decision.      *)
(***************************************************************************)
MAX_RETRIES == 3
BASE_DELAY_MS == 2000

\* a thrown value: an Error with its message, or a value that is not an Error
Err(message) == [isError |-> TRUE, message |-> message]
NonError == [isError |-> FALSE, message |-> <<>>]

E_429 == Err(<<"4","2","9"," ","T","o","o"," ","M","a","n","y"," ","R","e","q","u","e","s","t","s">>)
E_QUOTA == Err(<<"Q","u","o","t","a"," ","e","x","c","e","e","d","e","d"," ","f","o","r"," ","m","e","t","r","i","c">>)
E_NETWORK == Err(<<"f","e","t","c","h"," ","f","a","i","l","e","d">>)
E_EXHAUSTED == Err(<<"R","e","s","o","u","r","c","e"," ","h","a","s"," ","b","e","e","n"," ","e","x","h","a","u","s","t","e","d">>)
E_RATE == Err(<<"R","a","t","e"," ","L","i","m","i","t"," ","r","e","a","c","h","e","d">>)
E_DAILY_QUOTA == Err(<<"G","e","m","i","n","i"," ","d","a","i","l","y"," ","q","u","o","t","a"," ","e","x","c","e","e","d","e","d","."," ","T","h","e"," ","f","r","e","e"," ","t","i","e","r"," ","r","e","s","e","t","s"," ","a","t"," ","m","i","d","n","i","g","h","t"," ","P","a","c","i","f","i","c"," ","T","i","m","e","."," ","P","l","e","a","s","e"," ","t","r","y"," ","a","g","a","i","n"," ","l","a","t","e","r",".">>)

ModelErrors == {E_429, E_QUOTA, E_NETWORK, NonError}
\* the failures of the model when GeminiClient is called on its own
ClientErrors == ModelErrors \cup {E_EXHAUSTED, E_RATE}

isRateLimitError(error) ==
  /\ error.isError
  /\ LET msg == toLowerCase(error.message)
     IN \/ includes(msg, <<"4","2","9">>)
        \/ includes(msg, <<"r","e","s","o","u","r","c","e"," ","h","a","s"," ","b","e","e","n"," ","e","x","h","a","u","s","t","e","d">>)
        \/ includes(msg, <<"r","a","t","e"," ","l","i","m","i","t">>)
        \/ includes(msg, <<"q","u","o","t","a">>)

isDailyQuotaExhausted(error) ==
  /\ error.isError
  /\ LET msg == toLowerCase(error.message)
     IN \/ includes(msg, <<"r","e","s","o","u","r","c","e"," ","h","a","s"," ","b","e","e","n"," ","e","x","h","a","u","s","t","e","d">>)
        \/ includes(msg, <<"q","u","o","t","a">>)


\* faulty variant of ShouldRetry: one retry fewer
ShouldRetryTwice(error, att) == isRateLimitError(error) /\ att < MAX_RETRIES - 1

\* the catch block of generate and generateStream: sleep and continue ...
ShouldRetry(error, att) == isRateLimitError(error) /\ att < MAX_RETRIES
\* faulty variant of RetryDelay: the delay grows linearly
RetryDelayLinear(att) == BASE_DELAY_MS * (att + 1)

\* BASE_DELAY_MS * Math.pow(2, attempt)
RetryDelay(att) == BASE_DELAY_MS * 2^att
\* faulty variant of Rethrown: every failure is replaced
RethrownReplaced(error) == E_DAILY_QUOTA

\* ... or throw
Rethrown(error) == IF isDailyQuotaExhausted(error) THEN E_DAILY_QUOTA ELSE error

\* the content of the k-th chunk of a model stream, when it has content
DigitChars == <<"0","1","2","3","4","5","6","7","8","9">>
FragmentOf(k) == <<"c","h","u","n","k">> \o <<DigitChars[k + 1]>>

(***************************************************************************)
(* Text helpers of the retrieval code.                                     *)
(***************************************************************************)
RECURSIVE Join(_, _)
\* texts.join(sep)
Join(texts, sep) ==
  IF Len(texts) = 0 THEN <<>>
  ELSE IF Len(texts) = 1 THEN texts[1]
  ELSE texts[1] \o sep \o Join(Tail(texts), sep)

RECURSIVE Split(_, _, _)
\* s.split(/\s+/): cur is the piece being read, after is TRUE inside a run
\* of white space
Split(s, cur, after) ==
  IF Len(s) = 0 THEN <<cur>>
  ELSE IF IsSpace(s[1])
    THEN IF after THEN Split(Tail(s), cur, TRUE)
         ELSE <<cur>> \o Split(Tail(s), <<>>, TRUE)
  ELSE Split(Tail(s), Append(cur, s[1]), FALSE)

RECURSIVE NumberToString(_)
\* String(n) for a natural number n
NumberToString(n) ==
  IF n < 10 THEN <<DigitChars[n + 1]>>
  ELSE NumberToString(n \div 10) \o <<DigitChars[(n % 10) + 1]>>

(***************************************************************************)
(* Knowledge store records and the retrieval executor (RAGAgent.search).   *)
(* A distance is kept in units of 1/10000.                                 *)
(***************************************************************************)
DISTANCE_LIMIT == 4500
DISTANCE_DEFAULT == 10000

StoreObject(fileId, pageNumber, question, answer, hasDistance, distance) ==
  [fileId |-> fileId, pageNumber |-> pageNumber, question |-> question,
   answer |-> answer, hasDistance |-> hasDistance, distance |-> distance]

O_SALES == StoreObject(<<"a",".","p","d","f">>, <<<<"5">>, <<"6">>>>, <<"H","o","w"," ","w","e","r","e"," ","s","a","l","e","s","?">>, <<"S","a","l","e","s"," ","r","o","s","e",".">>, TRUE, 4499)
O_COSTS == StoreObject(<<"b",".","p","d","f">>, <<<<"2">>>>, <<"L","i","n","e"," ","i","t","e","m","s","?">>, <<"C","o","s","t","s"," ","f","e","l","l",".">>, TRUE, 1200)
O_FAR == StoreObject(<<"a",".","p","d","f">>, <<<<"9">>>>, <<"W","h","a","t"," ","i","s"," ","1","2","?">>, <<"A"," ","d","o","z","e","n",".">>, TRUE, 4500)

StoreObjects == {O_SALES, O_COSTS, O_FAR}

\* a second record of a.pdf, and a record returned without distance metadata
O_MORE == StoreObject(<<"a",".","p","d","f">>, <<<<"6">>, <<"7">>>>, <<"M","o","r","e"," ","s","a","l","e","s","?">>, <<"S","a","l","e","s"," ","d","o","u","b","l","e","d",".">>, TRUE, 3000)
O_NODIST == StoreObject(<<"c",".","p","d","f">>, <<<<"1">>>>, <<"A","n","y"," ","c","h","a","r","t","?">>, <<"A"," ","p","i","e"," ","o","f"," ","s","a","l","e","s",".">>, FALSE, 0)

\* a record whose own page list names one page twice
O_REPEAT == StoreObject(<<"a",".","p","d","f">>, <<<<"5">>, <<"5">>>>, <<"S","a","l","e","s"," ","a","g","a","i","n","?">>, <<"S","a","l","e","s"," ","r","o","s","e",".">>, TRUE, 2000)

RetrievalPool == StoreObjects \cup {O_MORE, O_NODIST, O_REPEAT}

\* the lists of at most n distinct records of a pool
ObjectLists(pool, n) ==
  UNION { { s \in [1..k -> pool] : \A i, j \in 1..k : i # j => s[i] # s[j] }
          : k \in 0..n }

Candidate(obj, distance) ==
  [fileId |-> obj.fileId, pageNumber |-> obj.pageNumber, answer |-> obj.answer,
   question |-> obj.question, distance |-> distance]

RECURSIVE semanticResultsInclusive(_)
\* semanticResults comparing with <= in place of <
semanticResultsInclusive(objects) ==
  IF Len(objects) = 0 THEN <<>>
  ELSE LET obj == objects[1]
           distance == IF obj.hasDistance THEN obj.distance ELSE DISTANCE_DEFAULT
       IN (IF distance <= DISTANCE_LIMIT THEN <<Candidate(obj, distance)>> ELSE <<>>)
          \o semanticResultsInclusive(Tail(objects))

RECURSIVE semanticResults(_)
\* the loop over response.objects of nearText
semanticResults(objects) ==
  IF Len(objects) = 0 THEN <<>>
  ELSE LET obj == objects[1]
           distance == IF obj.hasDistance THEN obj.distance ELSE DISTANCE_DEFAULT
       IN (IF distance < DISTANCE_LIMIT THEN <<Candidate(obj, distance)>> ELSE <<>>)
          \o semanticResults(Tail(objects))

stopWords ==
  {<<"w","h","a","t">>, <<"i","s">>, <<"t","h","e">>, <<"a">>, <<"a","n">>, <<"o","f">>, <<"t","o">>, <<"i","n">>, <<"f","o","r">>, <<"a","r","e">>,
   <<"h","o","w">>, <<"w","h","y">>, <<"w","h","e","n">>, <<"w","h","e","r","e">>, <<"w","h","o">>, <<"d","o","e","s">>, <<"d","o">>, <<"c","a","n">>,
   <<"c","o","u","l","d">>, <<"w","o","u","l","d">>, <<"s","h","o","u","l","d">>, <<"a","b","o","u","t">>, <<"t","h","a","t">>, <<"t","h","i","s">>, <<"w","i","t","h">>,
   <<"f","r","o","m">>, <<"h","a","v","e">>, <<"h","a","s">>, <<"b","e","e","n">>, <<"w","a","s">>, <<"w","e","r","e">>, <<"w","i","l","l">>, <<"b","e">>,
   <<"a","n","d">>, <<"o","r">>, <<"b","u","t">>, <<"n","o","t">>, <<"i","t">>, <<"i","t","s">>, <<"t","h","e","y">>, <<"t","h","e","m">>,
   <<"t","h","e","i","r">>, <<"y","o","u">>, <<"y","o","u","r">>, <<"m","e">>, <<"m","y">>, <<"w","e">>, <<"o","u","r">>}

isRelevant(query, question, answer) ==
  LET queryLower == toLowerCase(query)
      combined == toLowerCase(question \o <<" ">> \o answer)
      pieces == Split(queryLower, <<>>, FALSE)
  IN \E i \in 1..Len(pieces) :
       /\ Len(pieces[i]) >= 2
       /\ pieces[i] \notin stopWords
       /\ includes(combined, pieces[i])

\* faulty variant of keywordResults: the catch block runs after the loop of
\* the try block has pushed its candidates
keywordResultsAfterSemantic(query, objects) ==
  LET scan[k \in 0..Len(objects)] ==
        IF k = 0 THEN <<>>
        ELSE scan[k - 1] \o (IF isRelevant(query, objects[k].question, objects[k].answer)
                               THEN <<Candidate(objects[k], 0)>> ELSE <<>>)
  IN semanticResults(objects) \o scan[Len(objects)]

RECURSIVE keywordResults(_, _)
\* the catch block: results is the empty array of its declaration when
\* nearText rejects, and the loop over response.objects of fetchObjects
\* pushes onto it
keywordResults(query, objects) ==
  IF Len(objects) = 0 THEN <<>>
  ELSE LET obj == objects[1]
       IN (IF isRelevant(query, obj.question, obj.answer)
             THEN <<Candidate(obj, 0)>> ELSE <<>>)
          \o keywordResults(query, Tail(objects))

RECURSIVE addUniquePages(_, _)
addUniquePages(pages, pageNumber) ==
  IF Len(pageNumber) = 0 THEN pages
  ELSE addUniquePages(
         IF \E i \in 1..Len(pages) : pages[i] = pageNumber[1]
           THEN pages ELSE Append(pages, pageNumber[1]),
         Tail(pageNumber))

\* groupOne without the fileMap.has branch
groupOneAlwaysNew(refs, result) ==
  Append(refs, [type |-> "rag", fileId |-> result.fileId, displayId |-> <<>>,
                pages |-> result.pageNumber, content |-> result.answer])

\* one iteration of results.forEach in groupReferencesByFile
groupOne(refs, result) ==
  IF \E i \in 1..Len(refs) : refs[i].fileId = result.fileId
    THEN LET at == CHOOSE i \in 1..Len(refs) : refs[i].fileId = result.fileId
             existing == refs[at]
         IN [refs EXCEPT ![at] =
               [existing EXCEPT
                  !.pages = addUniquePages(existing.pages, result.pageNumber),
                  !.content =
                    IF result.answer # <<>> /\ ~includes(existing.content, result.answer)
                      THEN existing.content \o <<"\n">> \o result.answer
                      ELSE existing.content]]
    ELSE Append(refs, [type |-> "rag", fileId |-> result.fileId, displayId |-> <<>>,
                       pages |-> result.pageNumber, content |-> result.answer])

RECURSIVE groupAll(_, _)
groupAll(refs, results) ==
  IF Len(results) = 0 THEN refs
  ELSE groupAll(groupOne(refs, results[1]), Tail(results))

groupReferencesByFile(results) ==
  LET refs == groupAll(<<>>, results)
  IN [i \in 1..Len(refs) |-> [refs[i] EXCEPT !.displayId = NumberToString(i)]]

\* a prompt is kept as its template and the texts that fill it
Prompt(template, query, context) ==
  [template |-> template, query |-> query, context |-> context]

contextOf(results) ==
  Join([i \in 1..Len(results) |->
          <<"Q",":"," ">> \o results[i].question \o <<"\n","A",":"," ">> \o results[i].answer],
       <<"\n","\n">>)

\* faulty variant of searchResultOf: the grounded prompt whatever was kept
searchResultOfAlwaysGrounded(query, results) ==
  [results |-> results,
   references |-> IF Len(results) > 0 THEN groupReferencesByFile(results) ELSE <<>>,
   context |-> IF Len(results) > 0 THEN contextOf(results) ELSE <<>>,
   prompt |-> Prompt("grounded", query, contextOf(results))]

\* the part of RAGAgent.search after the store calls
searchResultOf(query, results) ==
  [results |-> results,
   references |-> IF Len(results) > 0 THEN groupReferencesByFile(results) ELSE <<>>,
   context |-> IF Len(results) > 0 THEN contextOf(results) ELSE <<>>,
   prompt |-> IF Len(results) > 0
                THEN Prompt("grounded", query, contextOf(results))
                ELSE Prompt("no-context", query, <<>>)]

\* the refText of processQueryStream and RAGAgent.query
sourcesText(references) ==
  Join([i \in 1..Len(references) |->
          IF Len(references[i].pages) = 1
            THEN references[i].displayId \o <<"-"," ","P","a","g","e"," ">> \o references[i].pages[1]
            ELSE references[i].displayId \o <<"-"," ","P","a","g","e","s"," ">>
                 \o Join(references[i].pages, <<","," ">>)],
       <<" ">>)

E_CONNECT == Err(<<"W","e","a","v","i","a","t","e"," ","c","o","n","n","e","c","t","i","o","n"," ","f","a","i","l","e","d","."," ","P","l","e","a","s","e"," ","e","n","s","u","r","e"," ","D","o","c","k","e","r"," ","i","s"," ","r","u","n","n","i","n","g"," ","w","i","t","h",":"," ","d","o","c","k","e","r"," ","c","o","m","p","o","s","e"," ","u","p"," ","-","d">>)
E_STORE == Err(<<"s","t","o","r","e"," ","u","n","a","v","a","i","l","a","b","l","e">>)

(***************************************************************************)
(* Chart tool and image tool.                                              *)
(***************************************************************************)
\* chartConfigs of config.json: the payloads by kind
chartConfigs == [kind \in {<<"p","i","e">>, <<"l","i","n","e">>, <<"b","a","r">>} |-> [type |-> kind]]

\* faulty variant of chartKind: 'line' is tested before 'pie'
chartKindLineFirst(input) ==
  LET inputLower == toLowerCase(input)
  IN IF includes(inputLower, <<"l","i","n","e">>) THEN <<"l","i","n","e">>
     ELSE IF includes(inputLower, <<"p","i","e">>) THEN <<"p","i","e">>
     ELSE <<"b","a","r">>

\* ChartTool.execute: the kind of chart the input asks for
chartKind(input) ==
  LET inputLower == toLowerCase(input)
  IN IF includes(inputLower, <<"p","i","e">>) THEN <<"p","i","e">>
     ELSE IF includes(inputLower, <<"l","i","n","e">>) THEN <<"l","i","n","e">>
     ELSE <<"b","a","r">>

\* ChartTool.generate on the kind ChartTool.execute detects
chartToolExecute(input) == chartConfigs[chartKind(input)]

\* ChartTool.execute(input?): input?.toLowerCase() || '' is the empty string
\* when the argument is absent
chartToolExecuteOptional(input) ==
  chartToolExecute(IF input = JUndefined THEN <<>> ELSE input.s)

\* the TypeError of chartConfigs[type] when config.json holds no chartConfigs member
E_CHART(input) ==
  Err(<<"C","a","n","n","o","t"," ","r","e","a","d"," ","p","r","o","p","e","r","t","i","e","s"," ","o","f"," ","u","n","d","e","f","i","n","e","d"," ","(","r","e","a","d","i","n","g"," ","'">> \o chartKind(input) \o <<"'",")">>)

Seeds == {0, 999999}

\* ImageTool.execute(prompt): the callers pass the imageUrl as a second
\* argument, which the method does not declare and never reads
imageToolExecute(prompt, imageUrl, seed) ==
  LET model == <<"f","l","u","x">>
  IN [url |-> [prompt |-> prompt, model |-> model, seed |-> seed],
      prompt |-> prompt,
      model |-> model]

\* the URIError of encodeURIComponent(prompt)
E_IMAGE == Err(<<"U","R","I"," ","m","a","l","f","o","r","m","e","d">>)

(***************************************************************************)
(* State.                                                                  *)
(***************************************************************************)
VARIABLES
  query,         \* the query text of the request
  imageUrl,      \* the imageUrl argument of processQueryStream
  pc,            \* position in processQueryStream / processQuery
  events,        \* the SSE events yielded so far
  caught,        \* the value bound by the catch block, once it has run
  response,      \* routerNode: the text returned by geminiClient.generate
  decision,      \* the ToolDecision
  data,          \* processQueryStream: the local data array
  searchResult,  \* the RAGSearchResult returned by ragAgent.search
  attempt,       \* GeminiClient: the attempt counter of the call in progress
  delays,        \* GeminiClient: the sleeps of the call in progress, in ms
  streamOpen,    \* GeminiClient.generateStream: a model stream is being read
  chunk,         \* number of chunks read from the open model stream
  token,         \* the fragment generateStream has just yielded
  fragments,     \* every fragment generateStream has yielded for this query
  client,        \* weaviate.client: the module-level connection handle
  modelInvoked,  \* whether model.invoke has been called for this query
  storeQueried,  \* whether the knowledge store has been accessed for this query
  ragResults,    \* workflow channel ragResults
  chartConfig,   \* workflow channel chartConfig
  finalAnswer,   \* workflow channel finalAnswer
  stateData,     \* workflow channel data
  pcChart,       \* ragNode: position of the chart branch of Promise.all
  joinOrder,     \* ragNode: the order in which the two branches completed
  modelLog,      \* GeminiClient called on its own: outcome of each model invocation
  storeResponse, \* RAGAgent called on its own: response.objects of the store call
  streamed,      \* the two modes on one query: the outcome of the streaming run
  input,         \* ChartTool.execute called on its own: its argument
  connection     \* getWeaviateClient / closeWeaviateClient called on their own: the calls in progress

vars ==
  <<query, imageUrl, pc, events, caught, response, decision, data, searchResult,
    attempt, delays, streamOpen, chunk, token, fragments, client,
    modelInvoked, storeQueried, ragResults, chartConfig, finalAnswer,
    stateData, pcChart, joinOrder, modelLog, storeResponse, streamed,
    input, connection>>

inputVars == <<query, imageUrl, storeResponse, streamed, input, connection>>
routerVars == <<response, decision>>
clientVars == <<attempt, delays, streamOpen, chunk, token, modelLog>>
workflowVars == <<ragResults, chartConfig, finalAnswer, stateData, pcChart, joinOrder>>

NoText == <<>>
NotCaught == [isError |-> FALSE, message |-> <<"-">>]
NoDecision == Decision(<<>>, JUndefined)
NoSearchResult == [results |-> <<>>, references |-> <<>>, context |-> <<>>,
                   prompt |-> Prompt("none", <<>>, <<>>)]
NoRagResults == [defined |-> FALSE, answer |-> <<>>, references |-> <<>>]
NoChartConfig == [type |-> <<>>]
\* no call of getWeaviateClient or closeWeaviateClient is in progress
NoConnection == [pcOf |-> <<>>, got |-> <<>>, opened |-> <<>>, closed |-> {}, closing |-> "idle"]

NotStreamed == [ended |-> FALSE]

Event(type, payload) == [type |-> type, data |-> payload]

InitCommon ==
  /\ query \in Queries
  /\ events = <<>>
  /\ caught = NotCaught
  /\ response = NoText
  /\ decision = NoDecision
  /\ data = <<>>
  /\ searchResult = NoSearchResult
  /\ attempt = 0
  /\ delays = <<>>
  /\ streamOpen = FALSE
  /\ chunk = 0
  /\ token = NoText
  /\ fragments = <<>>
  /\ client = "null"
  /\ modelInvoked = FALSE
  /\ storeQueried = FALSE
  /\ ragResults = NoRagResults
  /\ chartConfig = NoChartConfig
  /\ finalAnswer = <<>>
  /\ stateData = <<>>
  /\ pcChart = "idle"
  /\ joinOrder = <<>>
  /\ modelLog = <<>>
  /\ streamed = NotStreamed

(***************************************************************************)
(* processQueryStream.                                                     *)
(***************************************************************************)
Init ==
  /\ InitCommon
  /\ input = JUndefined
  /\ connection = NoConnection
  /\ storeResponse = <<>>
  /\ imageUrl \in ImageUrls
  /\ pc = "start"

\* const tools = decision.tools || ['direct']; decision.tools is an array
toolsOf(d) == d.tools

\* tools[0]
primaryOf(d) == IF Len(toolsOf(d)) = 0 THEN JUndefined ELSE toolsOf(d)[1]

\* const mainTool = tools[0] === 'both' ? 'rag' : tools[0]
mainToolOf(d) ==
  IF StrictEqualsStr(primaryOf(d), BOTH) THEN JStr(RAG) ELSE primaryOf(d)

\* faulty variant of branchOf: the last else runs retrieval
branchOfElseSearch(d) ==
  IF StrictEqualsStr(mainToolOf(d), CHART) THEN "chart"
  ELSE IF StrictEqualsStr(mainToolOf(d), IMAGE) THEN "image"
  ELSE IF StrictEqualsStr(mainToolOf(d), DIRECT) THEN "stream"
  ELSE "search"

\* the branch of the if / else-if chain over mainTool
branchOf(d) ==
  IF StrictEqualsStr(mainToolOf(d), RAG) THEN "search"
  ELSE IF StrictEqualsStr(mainToolOf(d), CHART) THEN "chart"
  ELSE IF StrictEqualsStr(mainToolOf(d), IMAGE) THEN "image"
  ELSE "stream"

\* faulty variant of Catch: the error event drops the failure's message
CatchDroppingMessage(error) ==
  /\ caught' = error
  /\ events' = Append(events, Event("error", <<"U","n","k","n","o","w","n"," ","e","r","r","o","r">>))
  /\ pc' = "end"

\* the catch block: one error event, then the generator returns
Catch(error) ==
  /\ caught' = error
  /\ events' = Append(events,
                 Event("error", IF error.isError THEN error.message
                                ELSE <<"U","n","k","n","o","w","n"," ","e","r","r","o","r">>))
  /\ pc' = "end"

\* yield { type: 'thinking', ... }
EmitThinking ==
  /\ pc = "start"
  /\ events' = Append(events,
                 Event("thinking", IF Truthy(imageUrl) THEN <<"P","r","o","c","e","s","s","i","n","g"," ","i","m","a","g","e",".",".",".">>
                                   ELSE <<"R","o","u","t","i","n","g"," ","q","u","e","r","y",".",".",".">>))
  /\ pc' = "route"
  /\ UNCHANGED <<inputVars, caught, routerVars, data, searchResult, clientVars, fragments,
                 client, modelInvoked, storeQueried, workflowVars>>

\* faulty variant of RouteAttached: the attachment does not decide the route
RouteAttachedAsDirect ==
  /\ pc = "route"
  /\ Truthy(imageUrl)
  /\ decision' = Decision(<<JStr(DIRECT)>>, JStr(<<"I","m","a","g","e"," ","a","t","t","a","c","h","e","d"," ","b","y"," ","u","s","e","r">>))
  /\ pc' = "yieldRoute"
  /\ UNCHANGED <<inputVars, caught, events, response, data, searchResult, clientVars,
                 fragments, client, modelInvoked, storeQueried, workflowVars>>

\* if (imageUrl) decision = { tools: ['image'], ... }
RouteAttached ==
  /\ pc = "route"
  /\ Truthy(imageUrl)
  /\ decision' = Decision(<<JStr(IMAGE)>>, JStr(<<"I","m","a","g","e"," ","a","t","t","a","c","h","e","d"," ","b","y"," ","u","s","e","r">>))
  /\ pc' = "yieldRoute"
  /\ UNCHANGED <<inputVars, caught, events, response, data, searchResult, clientVars,
                 fragments, client, modelInvoked, storeQueried, workflowVars>>

\* routerNode: model.invoke returns inside geminiClient.generate; routerNode
\* returns the decision or throws from printRouting
RouterInvokeReturns ==
  /\ pc = "route"
  /\ ~Truthy(imageUrl)
  /\ \E r \in ModelResponses :
       /\ response' = r
       /\ IF printRoutingThrows(routerNode(query, r))
            THEN Catch(E_PRIMITIVE) /\ UNCHANGED decision
            ELSE /\ decision' = routerNode(query, r)
                 /\ pc' = "yieldRoute"
                 /\ UNCHANGED <<caught, events>>
  /\ modelInvoked' = TRUE
  /\ attempt' = 0
  /\ delays' = <<>>
  /\ UNCHANGED <<inputVars, data, searchResult, streamOpen, chunk, token,
                 fragments, client, storeQueried, workflowVars, modelLog>>

\* routerNode: model.invoke throws inside geminiClient.generate
RouterInvokeThrows ==
  /\ pc = "route"
  /\ ~Truthy(imageUrl)
  /\ modelInvoked' = TRUE
  /\ \E e \in ModelErrors :
       IF ShouldRetry(e, attempt)
         THEN /\ attempt' = attempt + 1
              /\ delays' = Append(delays, RetryDelay(attempt))
              /\ UNCHANGED <<pc, events, caught>>
         ELSE /\ Catch(Rethrown(e))
              /\ UNCHANGED <<attempt, delays>>
  /\ UNCHANGED <<inputVars, routerVars, data, searchResult, streamOpen, chunk,
                 token, fragments, client, storeQueried, workflowVars, modelLog>>

\* faulty variant of EmitRoute: the decision is not announced
EmitRouteSkipped ==
  /\ pc = "yieldRoute"
  /\ response' = NoText
  /\ data' = <<>>
  /\ attempt' = 0
  /\ delays' = <<>>
  /\ pc' = branchOf(decision)
  /\ UNCHANGED <<inputVars, caught, events, decision, searchResult, streamOpen, chunk,
                 token, fragments, client, modelInvoked, storeQueried, workflowVars,
                 modelLog>>

\* yield { type: 'route', data: decision }, then up to the first await of
\* the selected branch
EmitRoute ==
  /\ pc = "yieldRoute"
  /\ events' = Append(events, Event("route", decision))
  /\ response' = NoText
  /\ data' = <<>>
  /\ attempt' = 0
  /\ delays' = <<>>
  /\ pc' = branchOf(decision)
  /\ UNCHANGED <<inputVars, caught, decision, searchResult, streamOpen, chunk, token,
                 fragments, client, modelInvoked, storeQueried, workflowVars, modelLog>>

\* ragAgent.search: await getWeaviateClient()
GetWeaviateClient ==
  /\ pc = "search"
  /\ \/ /\ client' = "connected"
        /\ pc' = "nearText"
        /\ UNCHANGED <<events, caught>>
     \/ /\ client = "null"
        /\ Catch(E_CONNECT)
        /\ UNCHANGED client
  /\ UNCHANGED <<inputVars, routerVars, data, searchResult, clientVars, fragments,
                 modelInvoked, storeQueried, workflowVars>>

\* faulty variant of AfterSearch: the references event is skipped
AfterSearchSkippingReferences(sr) == "stream"

\* where processQueryStream continues when ragAgent.search has returned sr
AfterSearch(sr) == IF Len(sr.references) > 0 THEN "yieldReferences" ELSE "stream"

\* ragAgent.search: nearText returns; the rest of search runs
NearTextReturns ==
  /\ pc = "nearText"
  /\ \E objects \in ObjectLists(StoreObjects, MaxObjects) :
       LET sr == searchResultOf(query, semanticResults(objects))
       IN /\ searchResult' = sr
          /\ pc' = AfterSearch(sr)
  /\ storeQueried' = TRUE
  /\ UNCHANGED <<inputVars, caught, events, routerVars, data, clientVars, fragments,
                 client, modelInvoked, workflowVars>>

\* faulty variant of NearTextThrows: the failure of nearText leaves search
NearTextThrowsToCaller ==
  /\ pc = "nearText"
  /\ Catch(E_STORE)
  /\ storeQueried' = TRUE
  /\ UNCHANGED <<inputVars, routerVars, data, searchResult, clientVars, fragments,
                 client, modelInvoked, workflowVars>>

\* ragAgent.search: nearText throws; the catch block calls fetchObjects
NearTextThrows ==
  /\ pc = "nearText"
  /\ pc' = "fetchObjects"
  /\ storeQueried' = TRUE
  /\ UNCHANGED <<inputVars, caught, events, routerVars, data, searchResult, clientVars,
                 fragments, client, modelInvoked, workflowVars>>

\* ragAgent.search: fetchObjects returns; the rest of search runs
FetchObjectsReturns ==
  /\ pc = "fetchObjects"
  /\ \E objects \in ObjectLists(StoreObjects, MaxObjects) :
       LET sr == searchResultOf(query, keywordResults(query, objects))
       IN /\ searchResult' = sr
          /\ pc' = AfterSearch(sr)
  /\ UNCHANGED <<inputVars, caught, events, routerVars, data, clientVars, fragments,
                 client, modelInvoked, storeQueried, workflowVars>>

\* ragAgent.search: fetchObjects throws out of the catch block
FetchObjectsThrows ==
  /\ pc = "fetchObjects"
  /\ Catch(E_STORE)
  /\ UNCHANGED <<inputVars, routerVars, data, searchResult, clientVars, fragments,
                 client, modelInvoked, storeQueried, workflowVars>>

\* data.push(...references); yield { type: 'references', ... }
EmitReferences ==
  /\ pc = "yieldReferences"
  /\ data' = data \o searchResult.references
  /\ events' = Append(events, Event("references", searchResult.references))
  /\ pc' = "stream"
  /\ UNCHANGED <<inputVars, caught, routerVars, searchResult, clientVars, fragments,
                 client, modelInvoked, storeQueried, workflowVars>>

\* the argument of geminiClient.generateStream in processQueryStream
streamPrompt ==
  IF branchOf(decision) = "search" THEN searchResult.prompt
  ELSE Prompt("direct", query, <<>>)

\* generateStream: model.stream(prompt) resolves
StreamOpens ==
  /\ pc = "stream"
  /\ ~streamOpen
  /\ streamOpen' = TRUE
  /\ chunk' = 0
  /\ UNCHANGED <<inputVars, caught, pc, events, routerVars, data, searchResult, attempt,
                 delays, token, fragments, client, modelInvoked, storeQueried,
                 workflowVars, modelLog>>

\* generateStream: a chunk with content arrives and is yielded
StreamChunk ==
  /\ pc = "stream"
  /\ streamOpen
  /\ chunk < MaxChunks
  /\ chunk' = chunk + 1
  /\ token' = FragmentOf(chunk + 1)
  /\ fragments' = Append(fragments, FragmentOf(chunk + 1))
  /\ pc' = "yieldToken"
  /\ UNCHANGED <<inputVars, caught, events, routerVars, data, searchResult, attempt,
                 delays, streamOpen, client, modelInvoked, storeQueried,
                 workflowVars, modelLog>>

\* generateStream: a chunk without content arrives and is skipped
StreamEmptyChunk ==
  /\ pc = "stream"
  /\ streamOpen
  /\ chunk < MaxChunks
  /\ chunk' = chunk + 1
  /\ UNCHANGED <<inputVars, caught, pc, events, routerVars, data, searchResult, attempt,
                 delays, streamOpen, token, fragments, client, modelInvoked,
                 storeQueried, workflowVars, modelLog>>

\* generateStream: model.stream or the iteration of the stream throws
StreamThrows ==
  /\ pc = "stream"
  /\ \E e \in ModelErrors :
       IF ShouldRetry(e, attempt)
         THEN /\ attempt' = attempt + 1
              /\ delays' = Append(delays, RetryDelay(attempt))
              /\ UNCHANGED <<pc, events, caught>>
         ELSE /\ Catch(Rethrown(e))
              /\ UNCHANGED <<attempt, delays>>
  /\ streamOpen' = FALSE
  /\ chunk' = 0
  /\ UNCHANGED <<inputVars, routerVars, data, searchResult, token, fragments,
                 client, modelInvoked, storeQueried, workflowVars, modelLog>>

\* faulty variant of AfterSources: the chart of the route 'both' is skipped
AfterSourcesSkippingChart == "yieldDone"

\* where processQueryStream continues after the sources of the rag branch
AfterSources == IF StrictEqualsStr(primaryOf(decision), BOTH) THEN "chartAlso" ELSE "yieldDone"

\* generateStream: the model stream ends and the generator returns
StreamEnds ==
  /\ pc = "stream"
  /\ streamOpen
  /\ streamOpen' = FALSE
  /\ chunk' = 0
  /\ attempt' = 0
  /\ delays' = <<>>
  /\ pc' = IF branchOf(decision) = "search"
             THEN IF Len(searchResult.references) > 0 THEN "yieldSources"
                  ELSE AfterSources
             ELSE "yieldDone"
  /\ UNCHANGED <<inputVars, caught, events, routerVars, data, searchResult, token,
                 fragments, client, modelInvoked, storeQueried, workflowVars, modelLog>>

\* faulty variant of EmitToken: the fragment is taken but no event is emitted
EmitTokenDropped ==
  /\ pc = "yieldToken"
  /\ token' = NoText
  /\ pc' = "stream"
  /\ UNCHANGED <<inputVars, caught, events, routerVars, data, searchResult, attempt,
                 delays, streamOpen, chunk, fragments, client, modelInvoked,
                 storeQueried, workflowVars, modelLog>>

\* yield { type: 'token', data: token }
EmitToken ==
  /\ pc = "yieldToken"
  /\ events' = Append(events, Event("token", token))
  /\ token' = NoText
  /\ pc' = "stream"
  /\ UNCHANGED <<inputVars, caught, routerVars, data, searchResult, attempt, delays,
                 streamOpen, chunk, fragments, client, modelInvoked, storeQueried,
                 workflowVars, modelLog>>

\* yield { type: 'sources', data: refText }
EmitSources ==
  /\ pc = "yieldSources"
  /\ events' = Append(events, Event("sources", sourcesText(searchResult.references)))
  /\ pc' = AfterSources
  /\ UNCHANGED <<inputVars, caught, routerVars, data, searchResult, clientVars, fragments,
                 client, modelInvoked, storeQueried, workflowVars>>

\* faulty variant of ChartReturns: the chart is emitted but not pushed to data
ChartReturnsWithoutPush ==
  /\ pc \in {"chart", "chartAlso"}
  /\ events' = Append(events, Event("chart", chartToolExecute(query)))
  /\ pc' = IF pc = "chart" THEN "yieldChartToken" ELSE "yieldDone"
  /\ UNCHANGED <<inputVars, caught, routerVars, data, searchResult, clientVars, fragments,
                 client, modelInvoked, storeQueried, workflowVars>>

\* await chartTool.execute(query); data.push; yield { type: 'chart', ... }
ChartReturns ==
  /\ pc \in {"chart", "chartAlso"}
  /\ data' = Append(data, [type |-> "chart", config |-> chartToolExecute(query)])
  /\ events' = Append(events, Event("chart", chartToolExecute(query)))
  /\ pc' = IF pc = "chart" THEN "yieldChartToken" ELSE "yieldDone"
  /\ UNCHANGED <<inputVars, caught, routerVars, searchResult, clientVars, fragments,
                 client, modelInvoked, storeQueried, workflowVars>>

\* chartTool.execute throws
ChartThrows ==
  /\ pc \in {"chart", "chartAlso"}
  /\ Catch(E_CHART(query))
  /\ UNCHANGED <<inputVars, routerVars, data, searchResult, clientVars, fragments,
                 client, modelInvoked, storeQueried, workflowVars>>

\* faulty variant of EmitChartToken: the confirmation sentence is not emitted
EmitChartTokenSkipped ==
  /\ pc = "yieldChartToken"
  /\ pc' = "yieldDone"
  /\ UNCHANGED <<inputVars, caught, events, routerVars, data, searchResult, clientVars,
                 fragments, client, modelInvoked, storeQueried, workflowVars>>

\* yield { type: 'token', data: 'Here is the requested chart configuration.' }
EmitChartToken ==
  /\ pc = "yieldChartToken"
  /\ events' = Append(events, Event("token", <<"H","e","r","e"," ","i","s"," ","t","h","e"," ","r","e","q","u","e","s","t","e","d"," ","c","h","a","r","t"," ","c","o","n","f","i","g","u","r","a","t","i","o","n",".">>))
  /\ pc' = "yieldDone"
  /\ UNCHANGED <<inputVars, caught, routerVars, data, searchResult, clientVars, fragments,
                 client, modelInvoked, storeQueried, workflowVars>>

\* await imageTool.execute(query, imageUrl); data.push; yield { type: 'image', ... }
ImageReturns ==
  /\ pc = "image"
  /\ \E seed \in Seeds :
       LET result == imageToolExecute(query, imageUrl, seed)
       IN /\ data' = Append(data, [type |-> "image", url |-> result.url,
                                   prompt |-> result.prompt, model |-> result.model])
          /\ events' = Append(events, Event("image", result))
  /\ pc' = "yieldImageToken"
  /\ UNCHANGED <<inputVars, caught, routerVars, searchResult, clientVars, fragments,
                 client, modelInvoked, storeQueried, workflowVars>>

\* imageTool.execute throws
ImageThrows ==
  /\ pc = "image"
  /\ \E e \in {E_IMAGE, NonError} : Catch(e)
  /\ UNCHANGED <<inputVars, routerVars, data, searchResult, clientVars, fragments,
                 client, modelInvoked, storeQueried, workflowVars>>

\* faulty variant of EmitImageToken: the sentence leaves the query out
EmitImageTokenWithoutQuery ==
  /\ pc = "yieldImageToken"
  /\ events' = Append(events, Event("token", <<"H","e","r","e"," ","i","s"," ","t","h","e"," ","g","e","n","e","r","a","t","e","d"," ","i","m","a","g","e"," ","f","o","r",":"," ","\"","\"">>))
  /\ pc' = "yieldDone"
  /\ UNCHANGED <<inputVars, caught, routerVars, data, searchResult, clientVars, fragments,
                 client, modelInvoked, storeQueried, workflowVars>>

\* yield { type: 'token', data: `Here is the generated image for: "${query}"` }
EmitImageToken ==
  /\ pc = "yieldImageToken"
  /\ events' = Append(events,
                 Event("token", <<"H","e","r","e"," ","i","s"," ","t","h","e"," ","g","e","n","e","r","a","t","e","d"," ","i","m","a","g","e"," ","f","o","r",":"," ","\"">> \o query \o <<"\"">>))
  /\ pc' = "yieldDone"
  /\ UNCHANGED <<inputVars, caught, routerVars, data, searchResult, clientVars, fragments,
                 client, modelInvoked, storeQueried, workflowVars>>

\* faulty variant of EmitDone: the generator returns without the done event
EmitDoneWithoutEvent ==
  /\ pc = "yieldDone"
  /\ pc' = "end"
  /\ UNCHANGED <<inputVars, caught, events, routerVars, data, searchResult, clientVars,
                 fragments, client, modelInvoked, storeQueried, workflowVars>>

\* yield { type: 'done', data: data }
EmitDone ==
  /\ pc = "yieldDone"
  /\ events' = Append(events, Event("done", data))
  /\ pc' = "end"
  /\ UNCHANGED <<inputVars, caught, routerVars, data, searchResult, clientVars, fragments,
                 client, modelInvoked, storeQueried, workflowVars>>

Next ==
  \/ EmitThinking
  \/ RouteAttached
  \/ RouterInvokeReturns
  \/ RouterInvokeThrows
  \/ EmitRoute
  \/ GetWeaviateClient
  \/ NearTextReturns
  \/ NearTextThrows
  \/ FetchObjectsReturns
  \/ FetchObjectsThrows
  \/ EmitReferences
  \/ StreamOpens
  \/ StreamChunk
  \/ StreamEmptyChunk
  \/ StreamThrows
  \/ StreamEnds
  \/ EmitToken
  \/ EmitSources
  \/ ChartReturns
  \/ ChartThrows
  \/ EmitChartToken
  \/ ImageReturns
  \/ ImageThrows
  \/ EmitImageToken
  \/ EmitDone

Spec == Init /\ [][Next]_vars

(***************************************************************************)
(* processQuery: the LangGraph workflow (router, one executor node,        *)
(* aggregator) and the chunks yielded from its result.  The chunks are     *)
(* kept in events.                                                         *)
(***************************************************************************)
\* the texts the model answers with: none, a sentence, the text of a one-chunk
\* stream, a text with a leading, a doubled and a trailing space
AnswerTexts == {<<>>, <<"S","a","l","e","s"," ","r","o","s","e"," ","5","%",".">>, FragmentOf(1), <<" ","S","a","l","e","s"," "," ","u","p"," ">>}

InitWorkflow ==
  /\ InitCommon
  /\ input = JUndefined
  /\ connection = NoConnection
  /\ storeResponse = <<>>
  /\ imageUrl = JUndefined
  /\ pc = "wfRouter"

Chunk(answer, chunkData) == [answer |-> answer, data |-> chunkData]

\* faulty variant of WorkflowCatch: the failure ends the generator with no chunk
WorkflowCatchSilent(error) ==
  /\ caught' = error
  /\ events' = events
  /\ pc' = "wfEnd"

\* the catch block of processQuery: one chunk, then the generator returns
WorkflowCatch(error) ==
  /\ caught' = error
  /\ events' = Append(events,
                 Chunk(<<"E","r","r","o","r"," ","p","r","o","c","e","s","s","i","n","g"," ","q","u","e","r","y",":"," ">>
                         \o (IF error.isError THEN error.message ELSE <<"U","n","k","n","o","w","n"," ","e","r","r","o","r">>),
                       <<>>))
  /\ pc' = "wfEnd"

\* decision.tools.includes('both')
needsChart(d) == \E i \in 1..Len(d.tools) : StrictEqualsStr(d.tools[i], BOTH)

\* the node the conditional edge of the router leads to; "none" when the
\* value of routeDecision is not a key of the edge map
nodeOf(d) ==
  LET key == routeDecision(d)
  IN IF StrictEqualsStr(key, RAG) \/ StrictEqualsStr(key, BOTH) THEN "rag"
     ELSE IF StrictEqualsStr(key, CHART) THEN "chart"
     ELSE IF StrictEqualsStr(key, DIRECT) THEN "direct"
     ELSE IF StrictEqualsStr(key, IMAGE) THEN "image"
     ELSE "none"

E_BRANCH == Err(<<"B","r","a","n","c","h"," ","c","o","n","d","i","t","i","o","n"," ","r","e","t","u","r","n","e","d"," ","u","n","k","n","o","w","n"," ","o","r"," ","n","u","l","l"," ","d","e","s","t","i","n","a","t","i","o","n">>)

\* the first await of the node entered after the router
EnterNode(d) ==
  CASE nodeOf(d) = "rag" -> "wfSearch"
    [] nodeOf(d) = "chart" -> "wfChart"
    [] nodeOf(d) = "direct" -> "wfAnswer"
    [] nodeOf(d) = "image" -> "wfImage"

\* the reducer of the string channels: right || left || ''
reduceText(left, right) == IF right # <<>> THEN right ELSE left

\* the reducer of the data channel: right?.length ? right : (left || [])
reduceData(left, right) == IF Len(right) > 0 THEN right ELSE left

\* router node: model.invoke returns, routerNode decides, the edge is taken;
\* ragNode starts the chart branch of Promise.all along with the query
WfRouterReturns ==
  /\ pc = "wfRouter"
  /\ modelInvoked' = TRUE
  /\ attempt' = 0
  /\ delays' = <<>>
  /\ \E r \in ModelResponses :
       LET d == routerNode(query, r)
       IN /\ response' = r
          /\ decision' = IF printRoutingThrows(d) THEN decision ELSE d
          /\ IF printRoutingThrows(d)
               THEN WorkflowCatch(E_PRIMITIVE) /\ UNCHANGED pcChart
             ELSE IF nodeOf(d) = "none"
               THEN WorkflowCatch(E_BRANCH) /\ UNCHANGED pcChart
               ELSE /\ pc' = EnterNode(d)
                    /\ pcChart' = IF nodeOf(d) = "rag" /\ needsChart(d)
                                     /\ ~wantsSequential(query)
                                    THEN "pending" ELSE "idle"
                    /\ UNCHANGED <<events, caught>>
  /\ UNCHANGED <<inputVars, data, searchResult, streamOpen, chunk, token, fragments,
                 client, storeQueried, ragResults, chartConfig, finalAnswer,
                 stateData, joinOrder, modelLog>>

\* router node: model.invoke throws inside geminiClient.generate
WfRouterThrows ==
  /\ pc = "wfRouter"
  /\ modelInvoked' = TRUE
  /\ \E e \in ModelErrors :
       IF ShouldRetry(e, attempt)
         THEN /\ attempt' = attempt + 1
              /\ delays' = Append(delays, RetryDelay(attempt))
              /\ UNCHANGED <<pc, events, caught>>
         ELSE /\ WorkflowCatch(Rethrown(e))
              /\ UNCHANGED <<attempt, delays>>
  /\ UNCHANGED <<inputVars, routerVars, data, searchResult, streamOpen, chunk,
                 token, fragments, client, storeQueried, workflowVars, modelLog>>

\* ragAgent.query: await getWeaviateClient()
WfGetWeaviateClient ==
  /\ pc = "wfSearch"
  /\ response' = NoText
  /\ \/ /\ client' = "connected"
        /\ pc' = "wfNearText"
        /\ UNCHANGED <<events, caught>>
     \/ /\ client = "null"
        /\ WorkflowCatch(E_CONNECT)
        /\ UNCHANGED client
  /\ UNCHANGED <<inputVars, decision, data, searchResult, clientVars, fragments,
                 modelInvoked, storeQueried, workflowVars>>

\* ragAgent.query: nearText returns, the candidates are filtered and grouped
WfNearTextReturns ==
  /\ pc = "wfNearText"
  /\ \E objects \in ObjectLists(StoreObjects, MaxObjects) :
       searchResult' = searchResultOf(query, semanticResults(objects))
  /\ storeQueried' = TRUE
  /\ pc' = "wfAnswer"
  /\ UNCHANGED <<inputVars, caught, events, routerVars, data, clientVars, fragments,
                 client, modelInvoked, workflowVars>>

\* ragAgent.query: nearText throws; the catch block calls fetchObjects
WfNearTextThrows ==
  /\ pc = "wfNearText"
  /\ pc' = "wfFetchObjects"
  /\ storeQueried' = TRUE
  /\ UNCHANGED <<inputVars, caught, events, routerVars, data, searchResult, clientVars,
                 fragments, client, modelInvoked, workflowVars>>

\* ragAgent.query: fetchObjects returns
WfFetchObjectsReturns ==
  /\ pc = "wfFetchObjects"
  /\ \E objects \in ObjectLists(StoreObjects, MaxObjects) :
       searchResult' = searchResultOf(query, keywordResults(query, objects))
  /\ pc' = "wfAnswer"
  /\ UNCHANGED <<inputVars, caught, events, routerVars, data, clientVars, fragments,
                 client, modelInvoked, storeQueried, workflowVars>>

\* ragAgent.query: fetchObjects throws out of the catch block
WfFetchObjectsThrows ==
  /\ pc = "wfFetchObjects"
  /\ WorkflowCatch(E_STORE)
  /\ UNCHANGED <<inputVars, routerVars, data, searchResult, clientVars, fragments,
                 client, modelInvoked, storeQueried, workflowVars>>

\* the answer of RAGAgent.query from the text the model returned
ragAnswer(sr, text) ==
  IF Len(sr.results) > 0
    THEN text \o <<"\n","\n","S","o","u","r","c","e","s",":"," ">> \o sourcesText(sr.references)
    ELSE text

\* geminiClient.generate returns the answer: ragAgent.query returns in the
\* rag node, directNode returns in the direct node
WfAnswerReturns ==
  /\ pc = "wfAnswer"
  /\ response' = NoText
  /\ attempt' = 0
  /\ delays' = <<>>
  /\ \E text \in AnswerTexts :
       IF nodeOf(decision) = "rag"
         THEN /\ ragResults' = [defined |-> TRUE,
                                answer |-> ragAnswer(searchResult, text),
                                references |-> searchResult.references]
              /\ joinOrder' = Append(joinOrder, "rag")
              /\ pc' = "wfRagDone"
              /\ UNCHANGED finalAnswer
         ELSE /\ finalAnswer' = reduceText(finalAnswer, text)
              /\ pc' = "wfAggregator"
              /\ UNCHANGED <<ragResults, joinOrder>>
  /\ UNCHANGED <<inputVars, caught, events, decision, data, searchResult, streamOpen, chunk,
                 token, fragments, client, modelInvoked, storeQueried, chartConfig,
                 stateData, pcChart, modelLog>>

\* geminiClient.generate: model.invoke throws while the answer is awaited
WfAnswerThrows ==
  /\ pc = "wfAnswer"
  /\ response' = NoText
  /\ \E e \in ModelErrors :
       IF ShouldRetry(e, attempt)
         THEN /\ attempt' = attempt + 1
              /\ delays' = Append(delays, RetryDelay(attempt))
              /\ UNCHANGED <<pc, events, caught>>
         ELSE /\ WorkflowCatch(Rethrown(e))
              /\ UNCHANGED <<attempt, delays>>
  /\ UNCHANGED <<inputVars, decision, data, searchResult, streamOpen, chunk, token,
                 fragments, client, modelInvoked, storeQueried, workflowVars, modelLog>>

\* ragNode, concurrent: the promise of chartTool.execute settles while
\* ragAgent.query is still awaited or after it has returned
WfChartBranchReturns ==
  /\ pcChart = "pending"
  /\ pc \in {"wfSearch", "wfNearText", "wfFetchObjects", "wfAnswer", "wfRagDone"}
  /\ chartConfig' = chartToolExecute(query)
  /\ pcChart' = "done"
  /\ joinOrder' = Append(joinOrder, "chart")
  /\ UNCHANGED <<inputVars, caught, pc, events, routerVars, data, searchResult, clientVars,
                 fragments, client, modelInvoked, storeQueried, ragResults,
                 finalAnswer, stateData>>

\* ragNode, sequential: await chartTool.execute after ragAgent.query returned
WfChartAfterRag ==
  /\ pc = "wfRagDone"
  /\ needsChart(decision)
  /\ pcChart = "idle"
  /\ chartConfig' = chartToolExecute(query)
  /\ pcChart' = "done"
  /\ joinOrder' = Append(joinOrder, "chart")
  /\ UNCHANGED <<inputVars, caught, pc, events, routerVars, data, searchResult, clientVars, fragments,
                 client, modelInvoked, storeQueried, ragResults, finalAnswer,
                 stateData>>

\* faulty variant of WfRagNodeReturns: ragNode returns when ragAgent.query
\* has returned, without awaiting the chart branch
WfRagNodeReturnsEarly ==
  /\ pc = "wfRagDone"
  /\ pc' = "wfAggregator"
  /\ UNCHANGED <<inputVars, caught, events, routerVars, data, searchResult, clientVars,
                 fragments, client, modelInvoked, storeQueried, workflowVars>>

\* ragNode returns { ragResults } or { ragResults, chartConfig }
WfRagNodeReturns ==
  /\ pc = "wfRagDone"
  /\ needsChart(decision) => pcChart = "done"
  /\ pc' = "wfAggregator"
  /\ UNCHANGED <<inputVars, caught, events, routerVars, data, searchResult, clientVars,
                 fragments, client, modelInvoked, storeQueried, workflowVars>>

\* chartNode
WfChartNode ==
  /\ pc = "wfChart"
  /\ response' = NoText
  /\ chartConfig' = chartToolExecute(query)
  /\ pc' = "wfAggregator"
  /\ UNCHANGED <<inputVars, caught, events, decision, data, searchResult, clientVars, fragments,
                 client, modelInvoked, storeQueried, ragResults, finalAnswer,
                 stateData, pcChart, joinOrder>>

\* ragNode: chartTool.execute throws, in Promise.all or awaited after ragAgent.query
WfChartInRagThrows ==
  /\ \/ pcChart = "pending" /\ pc \in {"wfSearch", "wfNearText", "wfFetchObjects", "wfAnswer", "wfRagDone"}
     \/ pcChart = "idle" /\ pc = "wfRagDone" /\ needsChart(decision)
  /\ pcChart' = "failed"
  /\ WorkflowCatch(E_CHART(query))
  /\ UNCHANGED <<inputVars, routerVars, data, searchResult, clientVars, fragments,
                 client, modelInvoked, storeQueried, ragResults, chartConfig,
                 finalAnswer, stateData, joinOrder>>

\* chartNode: chartTool.execute throws
WfChartNodeThrows ==
  /\ pc = "wfChart"
  /\ response' = NoText
  /\ WorkflowCatch(E_CHART(query))
  /\ UNCHANGED <<inputVars, decision, data, searchResult, clientVars, fragments,
                 client, modelInvoked, storeQueried, workflowVars>>

\* imageNode; the workflow state holds no imageUrl
WfImageNode ==
  /\ pc = "wfImage"
  /\ response' = NoText
  /\ \/ /\ \E seed \in Seeds :
             LET result == imageToolExecute(query, imageUrl, seed)
             IN stateData' = reduceData(stateData,
                               <<[type |-> "image", url |-> result.url,
                                  prompt |-> result.prompt, model |-> result.model]>>)
        /\ finalAnswer' = reduceText(finalAnswer,
                            <<"H","e","r","e"," ","i","s"," ","t","h","e"," ","g","e","n","e","r","a","t","e","d"," ","i","m","a","g","e"," ","f","o","r",":"," ","\"">> \o query \o <<"\"">>)
        /\ pc' = "wfAggregator"
        /\ UNCHANGED <<events, caught>>
     \/ /\ \E e \in {E_IMAGE, NonError} : WorkflowCatch(e)
        /\ UNCHANGED <<finalAnswer, stateData>>
  /\ UNCHANGED <<inputVars, decision, data, searchResult, clientVars, fragments,
                 client, modelInvoked, storeQueried, ragResults, chartConfig,
                 pcChart, joinOrder>>

\* faulty variant of aggregatorNode: the chart reference is put first
aggregatorNodeChartFirst(rag, chart, final) ==
  LET base == IF rag.defined THEN rag.answer ELSE <<>>
      refs == IF rag.defined THEN rag.references ELSE <<>>
      charted == chart # NoChartConfig
      withChart ==
        IF ~charted THEN base
        ELSE IF base # <<>> THEN base \o <<"\n","\n","[","C","h","a","r","t"," ","c","o","n","f","i","g","u","r","a","t","i","o","n"," ","i","n","c","l","u","d","e","d"," ","i","n"," ","d","a","t","a","]">>
        ELSE <<"H","e","r","e"," ","i","s"," ","t","h","e"," ","r","e","q","u","e","s","t","e","d"," ","c","h","a","r","t"," ","c","o","n","f","i","g","u","r","a","t","i","o","n",".">>
  IN [finalAnswer |-> IF withChart = <<>> /\ final # <<>> THEN final ELSE withChart,
      data |-> (IF charted THEN <<[type |-> "chart", config |-> chart]>> ELSE <<>>)
                 \o refs]

\* faulty variant of aggregatorNode: a direct answer replaces the tools' text
aggregatorNodeDirectFirst(rag, chart, final) ==
  LET out == aggregatorNodeChartFirst(rag, chart, <<>>)
  IN [finalAnswer |-> IF final # <<>> THEN final ELSE out.finalAnswer,
      data |-> (IF rag.defined THEN rag.references ELSE <<>>)
                 \o (IF chart # NoChartConfig THEN <<[type |-> "chart", config |-> chart]>>
                     ELSE <<>>)]

\* aggregatorNode: the finalAnswer and the data it returns
aggregatorNode(rag, chart, final) ==
  LET base == IF rag.defined THEN rag.answer ELSE <<>>
      refs == IF rag.defined THEN rag.references ELSE <<>>
      charted == chart # NoChartConfig
      withChart ==
        IF ~charted THEN base
        ELSE IF base # <<>> THEN base \o <<"\n","\n","[","C","h","a","r","t"," ","c","o","n","f","i","g","u","r","a","t","i","o","n"," ","i","n","c","l","u","d","e","d"," ","i","n"," ","d","a","t","a","]">>
        ELSE <<"H","e","r","e"," ","i","s"," ","t","h","e"," ","r","e","q","u","e","s","t","e","d"," ","c","h","a","r","t"," ","c","o","n","f","i","g","u","r","a","t","i","o","n",".">>
  IN [finalAnswer |-> IF withChart = <<>> /\ final # <<>> THEN final ELSE withChart,
      data |-> refs \o (IF charted THEN <<[type |-> "chart", config |-> chart]>>
                        ELSE <<>>)]

\* aggregator node, then END: workflow.invoke returns the channel values
WfAggregator ==
  /\ pc = "wfAggregator"
  /\ LET out == aggregatorNode(ragResults, chartConfig, finalAnswer)
     IN /\ finalAnswer' = reduceText(finalAnswer, out.finalAnswer)
        /\ stateData' = reduceData(stateData, out.data)
  /\ chunk' = 0
  /\ pc' = "wfYieldWords"
  /\ UNCHANGED <<inputVars, caught, events, routerVars, data, searchResult, attempt, delays,
                 streamOpen, token, fragments, client, modelInvoked, storeQueried,
                 ragResults, chartConfig, pcChart, joinOrder, modelLog>>

RECURSIVE SplitOnSpace(_, _)
\* s.split(' '): cur is the piece being read
SplitOnSpace(s, cur) ==
  IF Len(s) = 0 THEN <<cur>>
  ELSE IF s[1] = " " THEN <<cur>> \o SplitOnSpace(Tail(s), <<>>)
  ELSE SplitOnSpace(Tail(s), Append(cur, s[1]))

\* const words = (result.finalAnswer || 'No answer generated').split(' ')
wordsOf(answer) ==
  SplitOnSpace(IF answer # <<>> THEN answer ELSE <<"N","o"," ","a","n","s","w","e","r"," ","g","e","n","e","r","a","t","e","d">>, <<>>)

\* faulty variant of WfYieldWord: the separator is put after the word
WfYieldWordSpaceAfter ==
  /\ pc = "wfYieldWords"
  /\ chunk < Len(wordsOf(finalAnswer))
  /\ events' = Append(events,
                 Chunk(wordsOf(finalAnswer)[chunk + 1] \o <<" ">>, <<>>))
  /\ chunk' = chunk + 1
  /\ UNCHANGED <<inputVars, caught, pc, routerVars, data, searchResult, attempt, delays,
                 streamOpen, token, fragments, client, modelInvoked, storeQueried,
                 workflowVars, modelLog>>

\* yield { answer: chunkText, data: [] } for the next word
WfYieldWord ==
  /\ pc = "wfYieldWords"
  /\ chunk < Len(wordsOf(finalAnswer))
  /\ events' = Append(events,
                 Chunk((IF chunk > 0 THEN <<" ">> ELSE <<>>) \o wordsOf(finalAnswer)[chunk + 1],
                       <<>>))
  /\ chunk' = chunk + 1
  /\ UNCHANGED <<inputVars, caught, pc, routerVars, data, searchResult, attempt, delays,
                 streamOpen, token, fragments, client, modelInvoked, storeQueried,
                 workflowVars, modelLog>>

\* yield { answer: '', data: result.data || [] }
WfYieldData ==
  /\ pc = "wfYieldWords"
  /\ chunk = Len(wordsOf(finalAnswer))
  /\ events' = Append(events, Chunk(<<>>, stateData))
  /\ chunk' = 0
  /\ pc' = "wfEnd"
  /\ UNCHANGED <<inputVars, caught, routerVars, data, searchResult, attempt, delays,
                 streamOpen, token, fragments, client, modelInvoked, storeQueried,
                 workflowVars, modelLog>>

NextWorkflow ==
  \/ WfRouterReturns
  \/ WfRouterThrows
  \/ WfGetWeaviateClient
  \/ WfNearTextReturns
  \/ WfNearTextThrows
  \/ WfFetchObjectsReturns
  \/ WfFetchObjectsThrows
  \/ WfAnswerReturns
  \/ WfAnswerThrows
  \/ WfChartBranchReturns
  \/ WfChartAfterRag
  \/ WfRagNodeReturns
  \/ WfChartInRagThrows
  \/ WfChartNode
  \/ WfChartNodeThrows
  \/ WfImageNode
  \/ WfAggregator
  \/ WfYieldWord
  \/ WfYieldData

SpecWorkflow == InitWorkflow /\ [][NextWorkflow]_vars

(***************************************************************************)
(* GeminiClient called on its own: one call of generate or of              *)
(* generateStream, the caller taking every fragment as it is yielded.      *)
(* modelLog holds, per invocation of the model, the failure it raised, or  *)
(* NotCaught when it raised none.                                          *)
(***************************************************************************)
InitClient ==
  /\ InitCommon
  /\ input = JUndefined
  /\ connection = NoConnection
  /\ storeResponse = <<>>
  /\ imageUrl = JUndefined
  /\ pc \in {"generate", "generateStream"}

\* the catch block of generate and generateStream on the failure error
ClientCatch(error) ==
  /\ modelLog' = Append(modelLog, error)
  /\ IF ShouldRetry(error, attempt)
       THEN /\ attempt' = attempt + 1
            /\ delays' = Append(delays, RetryDelay(attempt))
            /\ UNCHANGED <<pc, caught>>
       ELSE /\ caught' = Rethrown(error)
            /\ pc' = IF pc = "generate" THEN "generateThrew" ELSE "generateStreamThrew"
            /\ UNCHANGED <<attempt, delays>>

\* generate: model.invoke returns and generate returns the text
GenerateReturns ==
  /\ pc = "generate"
  /\ \E text \in AnswerTexts : response' = text
  /\ modelLog' = Append(modelLog, NotCaught)
  /\ pc' = "generateReturned"
  /\ UNCHANGED <<inputVars, events, caught, decision, data, searchResult, attempt, delays,
                 streamOpen, chunk, token, fragments, client, modelInvoked,
                 storeQueried, workflowVars>>

\* generate: model.invoke throws
GenerateCatches ==
  /\ pc = "generate"
  /\ \E e \in ClientErrors : ClientCatch(e)
  /\ UNCHANGED <<inputVars, events, routerVars, data, searchResult, streamOpen, chunk,
                 token, fragments, client, modelInvoked, storeQueried, workflowVars>>

\* generateStream: model.stream returns a stream
GenerateStreamOpens ==
  /\ pc = "generateStream"
  /\ ~streamOpen
  /\ streamOpen' = TRUE
  /\ chunk' = 0
  /\ UNCHANGED <<inputVars, pc, events, caught, routerVars, data, searchResult, attempt,
                 delays, token, fragments, client, modelInvoked, storeQueried,
                 workflowVars, modelLog>>

\* generateStream: a chunk with content arrives and is yielded to the caller
GenerateStreamYields ==
  /\ pc = "generateStream"
  /\ streamOpen
  /\ chunk < MaxChunks
  /\ chunk' = chunk + 1
  /\ token' = FragmentOf(chunk + 1)
  /\ fragments' = Append(fragments, FragmentOf(chunk + 1))
  /\ UNCHANGED <<inputVars, pc, events, caught, routerVars, data, searchResult, attempt,
                 delays, streamOpen, client, modelInvoked, storeQueried,
                 workflowVars, modelLog>>

\* generateStream: a chunk without content arrives and is skipped
GenerateStreamSkips ==
  /\ pc = "generateStream"
  /\ streamOpen
  /\ chunk < MaxChunks
  /\ chunk' = chunk + 1
  /\ UNCHANGED <<inputVars, pc, events, caught, routerVars, data, searchResult, attempt,
                 delays, streamOpen, token, fragments, client, modelInvoked,
                 storeQueried, workflowVars, modelLog>>

\* generateStream: model.stream or the iteration of the stream throws
GenerateStreamCatches ==
  /\ pc = "generateStream"
  /\ \E e \in ClientErrors : ClientCatch(e)
  /\ streamOpen' = FALSE
  /\ chunk' = 0
  /\ UNCHANGED <<inputVars, events, routerVars, data, searchResult, token, fragments,
                 client, modelInvoked, storeQueried, workflowVars>>

\* generateStream: the stream ends and the generator returns
GenerateStreamReturns ==
  /\ pc = "generateStream"
  /\ streamOpen
  /\ streamOpen' = FALSE
  /\ modelLog' = Append(modelLog, NotCaught)
  /\ pc' = "generateStreamReturned"
  /\ UNCHANGED <<inputVars, events, caught, routerVars, data, searchResult, attempt,
                 delays, chunk, token, fragments, client, modelInvoked, storeQueried,
                 workflowVars>>

NextClient ==
  \/ GenerateReturns
  \/ GenerateCatches
  \/ GenerateStreamOpens
  \/ GenerateStreamYields
  \/ GenerateStreamSkips
  \/ GenerateStreamCatches
  \/ GenerateStreamReturns

SpecClient == InitClient /\ [][NextClient]_vars

\* the model answers or fails every invocation, and a sleep ends
SpecClientFair == SpecClient /\ WF_vars(NextClient)

(***************************************************************************)
(* RAGAgent called on its own: one call of search or of query, up to the   *)
(* references, on the objects storeResponse that the store call returns.   *)
(***************************************************************************)
InitRetrieval ==
  /\ InitCommon
  /\ input = JUndefined
  /\ connection = NoConnection
  /\ imageUrl = JUndefined
  /\ storeResponse \in ObjectLists(RetrievalPool, MaxObjects)
  /\ pc \in {"search", "query"}

\* the results and references of one call, from the candidates that were kept
Retrieved(results, next) ==
  /\ searchResult' = searchResultOf(query, results)
  /\ storeQueried' = TRUE
  /\ pc' = next
  /\ UNCHANGED <<inputVars, events, caught, routerVars, data, clientVars, fragments,
                 client, modelInvoked, workflowVars>>

\* search: nearText returns storeResponse
SearchNearText ==
  /\ pc = "search"
  /\ Retrieved(semanticResults(storeResponse), "searched")

\* search: nearText throws and fetchObjects returns storeResponse
SearchFetchObjects ==
  /\ pc = "search"
  /\ Retrieved(keywordResults(query, storeResponse), "searchedByKeyword")

\* query: nearText returns storeResponse
QueryNearText ==
  /\ pc = "query"
  /\ Retrieved(semanticResults(storeResponse), "queried")

\* query: nearText throws and fetchObjects returns storeResponse
QueryFetchObjects ==
  /\ pc = "query"
  /\ Retrieved(keywordResults(query, storeResponse), "queriedByKeyword")

NextRetrieval ==
  \/ SearchNearText
  \/ SearchFetchObjects
  \/ QueryNearText
  \/ QueryFetchObjects

SpecRetrieval == InitRetrieval /\ [][NextRetrieval]_vars

(***************************************************************************)
(* aggregatorNode on its own: the channels hold whatever the nodes before  *)
(* the aggregator may have written, then the aggregator node runs.         *)
(***************************************************************************)
RagOutputs ==
  {NoRagResults} \cup
  {[defined |-> TRUE, answer |-> a, references |-> r] :
     a \in AnswerTexts,
     r \in {<<>>, groupReferencesByFile(semanticResults(<<O_SALES>>))}}

ChartOutputs == {NoChartConfig} \cup {chartConfigs[k] : k \in DOMAIN chartConfigs}

DirectAnswers == AnswerTexts \cup {<<"4","2">>}

InitAggregator ==
  /\ InitCommon
  /\ input = JUndefined
  /\ connection = NoConnection
  /\ storeResponse = <<>>
  /\ imageUrl = JUndefined
  /\ pc = "wfNode"

\* the node before the aggregator returns its partial state
WfNodeReturns ==
  /\ pc = "wfNode"
  /\ ragResults' \in RagOutputs
  /\ chartConfig' \in ChartOutputs
  /\ finalAnswer' \in DirectAnswers
  /\ pc' = "wfAggregator"
  /\ UNCHANGED <<inputVars, caught, events, routerVars, data, searchResult, clientVars,
                 fragments, client, modelInvoked, storeQueried, stateData, pcChart,
                 joinOrder>>

NextAggregator ==
  \/ WfNodeReturns
  \/ WfAggregator

SpecAggregator == InitAggregator /\ [][NextAggregator]_vars

(***************************************************************************)
(* The two modes on one query: processQueryStream runs to its done event,  *)
(* then processQuerySync runs processQuery on the same query and collects  *)
(* its chunks.  streamed keeps what the streaming run met and gave.        *)
(***************************************************************************)
InitModes == Init

RECURSIVE processQuerySync(_, _)
\* the loop of processQuerySync over the chunks, from finalResponse
processQuerySync(chunks, finalResponse) ==
  IF Len(chunks) = 0 THEN finalResponse
  ELSE processQuerySync(
         Tail(chunks),
         [answer |-> finalResponse.answer \o chunks[1].answer,
          data |-> IF Len(chunks[1].data) > 0 THEN chunks[1].data
                   ELSE finalResponse.data])

\* the payloads of the token events, concatenated
tokensOf(evs) ==
  LET tokens == SelectSeq(evs, LAMBDA e : e.type = "token")
  IN Join([i \in 1..Len(tokens) |-> tokens[i].data], <<>>)

\* the streaming run has ended with done, on fragments that make up a text
\* the model can return whole; the non-streaming run starts
StartSync ==
  /\ pc = "end"
  /\ caught = NotCaught
  /\ ~streamed.ended
  /\ Join(fragments, <<>>) \in AnswerTexts
  /\ streamed' = [ended |-> TRUE,
                  decision |-> decision,
                  results |-> searchResult.results,
                  text |-> Join(fragments, <<>>),
                  answer |-> tokensOf(events),
                  data |-> events[Len(events)].data]
  /\ pc' = "wfRouter"
  /\ events' = <<>>
  /\ response' = NoText
  /\ decision' = NoDecision
  /\ data' = <<>>
  /\ searchResult' = NoSearchResult
  /\ fragments' = <<>>
  /\ modelInvoked' = FALSE
  /\ storeQueried' = FALSE
  /\ imageUrl' = JUndefined
  /\ UNCHANGED <<query, storeResponse, input, connection, caught, clientVars, client, workflowVars>>

\* the collaborators answer the non-streaming run as they answered the
\* streaming run: the router's decision, the candidates kept, the model's
\* text, the image
Replayed ==
  /\ decision \in {NoDecision, streamed.decision}
  /\ searchResult = NoSearchResult \/ searchResult.results = streamed.results
  /\ ragResults.defined => ragResults.answer = ragAnswer(searchResult, streamed.text)
  /\ (nodeOf(decision) = "direct" /\ finalAnswer # <<>>) => finalAnswer = streamed.text
  /\ (nodeOf(decision) = "image" /\ stateData # <<>>) => stateData = streamed.data

NextModes ==
  \/ Next
  \/ StartSync
  \/ NextWorkflow /\ Replayed'

SpecModes == InitModes /\ [][NextModes]_vars

(***************************************************************************)
(* ChartTool.execute on its own: one call on each argument.                *)
(***************************************************************************)
ChartWords == {<<>>, <<"p","i","e">>, <<"L","I","N","E">>, <<" ","b","a","r"," ">>, <<"P","i">>, <<"e">>, <<"l","i","n">>}

\* the arguments: none, or a text of three words
ChartInputs ==
  {JUndefined} \cup {JStr(a \o b \o c) : a \in ChartWords, b \in ChartWords, c \in ChartWords}

InitChart ==
  /\ InitCommon
  /\ input \in ChartInputs
  /\ connection = NoConnection
  /\ storeResponse = <<>>
  /\ imageUrl = JUndefined
  /\ pc = "chartExecute"

\* await chartTool.execute(input)
ChartExecute ==
  /\ pc = "chartExecute"
  /\ chartConfig' = chartToolExecuteOptional(input)
  /\ pc' = "chartDone"
  /\ UNCHANGED <<inputVars, caught, events, routerVars, data, searchResult, clientVars,
                 fragments, client, modelInvoked, storeQueried, ragResults, finalAnswer,
                 stateData, pcChart, joinOrder>>

NextChart == ChartExecute

SpecChart == InitChart /\ [][NextChart]_vars

(***************************************************************************)
(* getWeaviateClient and closeWeaviateClient on their own: three callers   *)
(* of getWeaviateClient, each calling once, and one call of                *)
(* closeWeaviateClient, interleaved at their awaits.  client is the        *)
(* module-level handle; connection.opened lists the handles that           *)
(* weaviate.connectToLocal has resolved with.                              *)
(***************************************************************************)
Callers == {"a", "b", "c"}
Handles == <<"c1", "c2", "c3">>

InitConnection ==
  /\ InitCommon
  /\ input = JUndefined
  /\ storeResponse = <<>>
  /\ imageUrl = JUndefined
  /\ pc = "serving"
  /\ connection = [pcOf |-> [c \in Callers |-> "idle"],
                   got |-> [c \in Callers |-> "null"],
                   opened |-> <<>>,
                   closed |-> {},
                   closing |-> "idle"]

ConnectionUnchanged ==
  UNCHANGED <<query, imageUrl, storeResponse, streamed, input, pc, caught, events,
              routerVars, data, searchResult, clientVars, fragments, modelInvoked,
              storeQueried, workflowVars>>

\* getWeaviateClient up to its first await: if (client) return client;
\* otherwise weaviate.connectToLocal is called
GetClientStarts(c) ==
  /\ connection.pcOf[c] = "idle"
  /\ IF client # "null"
       THEN connection' = [connection EXCEPT !.pcOf[c] = "returned", !.got[c] = client]
       ELSE connection' = [connection EXCEPT !.pcOf[c] = "connecting"]
  /\ UNCHANGED client
  /\ ConnectionUnchanged

\* the await resolves: client = the new connection; return client
ConnectResolves(c) ==
  /\ connection.pcOf[c] = "connecting"
  /\ LET handle == Handles[Len(connection.opened) + 1]
     IN /\ client' = handle
        /\ connection' = [connection EXCEPT !.pcOf[c] = "returned", !.got[c] = handle,
                                            !.opened = Append(@, handle)]
  /\ ConnectionUnchanged

\* the await rejects: the catch block throws the connection error
ConnectRejects(c) ==
  /\ connection.pcOf[c] = "connecting"
  /\ connection' = [connection EXCEPT !.pcOf[c] = "failed"]
  /\ UNCHANGED client
  /\ ConnectionUnchanged

\* closeWeaviateClient up to its await: if (client) client.close() is called
CloseStarts ==
  /\ connection.closing = "idle"
  /\ connection' = [connection EXCEPT !.closing = IF client # "null" THEN client ELSE "done"]
  /\ UNCHANGED client
  /\ ConnectionUnchanged

\* the await of client.close() resolves: client = null
CloseResolves ==
  /\ connection.closing \notin {"idle", "done"}
  /\ client' = "null"
  /\ connection' = [connection EXCEPT !.closing = "done", !.closed = @ \cup {connection.closing}]
  /\ ConnectionUnchanged

NextConnection ==
  \/ \E c \in Callers : GetClientStarts(c)
  \/ \E c \in Callers : ConnectResolves(c)
  \/ \E c \in Callers : ConnectRejects(c)
  \/ CloseStarts
  \/ CloseResolves

SpecConnection == InitConnection /\ [][NextConnection]_vars

\* both entry points over the same state
SpecAll == (Init \/ InitWorkflow) /\ [][Next \/ NextWorkflow]_vars

(***************************************************************************)
(* Properties.                                                             *)
(***************************************************************************)
\* the positions of processQueryStream
StreamPositions ==
  {"start", "route", "yieldRoute", "search", "nearText", "fetchObjects",
   "yieldReferences", "stream", "yieldToken", "yieldSources", "chart", "chartAlso",
   "yieldChartToken", "image", "yieldImageToken", "yieldDone", "end"}

IsTerminal(e) == e.type \in {"done", "error"}
PositionsOf(type) == {i \in 1..Len(events) : events[i].type = type}
Emitted(type) == PositionsOf(type) # {}
LastEvent == events[Len(events)]
TypesOf(evs) == [i \in 1..Len(evs) |-> evs[i].type]
Repeat(x, n) == [i \in 1..n |-> x]

\* the router's model answer is at hand and JSON.parse throws on it
Unparsable == pc = "yieldRoute" /\ response # NoText /\ ~JSONparse(response).ok
\* the router's model answer is at hand and JSON.parse returns a value
Parsable == pc = "yieldRoute" /\ response # NoText /\ JSONparse(response).ok

\* C1: a stream consumed to the end holds exactly one terminal event (done or
\* error, never both, never neither), and a terminal event is always the last
\* event of the stream.
C1_OneTerminalEventLast ==
  /\ \A i \in 1..Len(events) : IsTerminal(events[i]) => i = Len(events)
  /\ pc = "end" <=> (Len(events) > 0 /\ IsTerminal(LastEvent))
  /\ pc = "end" => Cardinality(PositionsOf("done") \cup PositionsOf("error")) = 1

C1_Witness ==
  /\ pc = "end"
  /\ LastEvent.type = "error"
  /\ Emitted("references")
  /\ Emitted("token")

\* C2: when a failure reaches processQueryStream, the step that raises it
\* appends exactly one error event to the events emitted so far, which stay as
\* they are; the event carries the failure's message (the text 'Unknown error'
\* for a thrown value that is not an Error); the stream ends there, and it
\* holds no done event and no sources event after the failure.
C2_FailureEndsWithError ==
  [][caught' # caught =>
       /\ events' = Append(events,
                      Event("error", IF caught'.isError THEN caught'.message
                                     ELSE <<"U","n","k","n","o","w","n"," ","e","r","r","o","r">>))
       /\ pc' = "end"
       /\ ~Emitted("done")
       /\ ~Emitted("error")
       /\ caught = NotCaught]_vars

C2_Witness ==
  /\ pc = "end"
  /\ caught = E_DAILY_QUOTA
  /\ Emitted("token")
  /\ LastEvent = Event("error", E_DAILY_QUOTA.message)

\* the events of a successful retrieval query
RetrievalEvents ==
  LET refs == searchResult.references
  IN <<"thinking", "route">>
     \o (IF Len(refs) > 0 THEN <<"references">> ELSE <<>>)
     \o Repeat("token", Len(fragments))
     \o (IF Len(refs) > 0 THEN <<"sources">> ELSE <<>>)
     \o <<"done">>

\* C3: in the retrieval route a successful query emits thinking, route, a
\* references event iff the reference list is non-empty, one token event per
\* fragment the model client yields (in that order), a sources event iff the
\* reference list is non-empty, then done; no token event precedes the
\* references event and none follows the sources event.
C3_RetrievalEventOrder ==
  /\ (pc = "end" /\ LastEvent.type = "done" /\ StrictEqualsStr(primaryOf(decision), RAG))
       => /\ TypesOf(events) = RetrievalEvents
          /\ \A i \in PositionsOf("references") : events[i].data = searchResult.references
          /\ LET tokens == SelectSeq(events, LAMBDA e : e.type = "token")
             IN [i \in 1..Len(tokens) |-> tokens[i].data] = fragments
  /\ StrictEqualsStr(mainToolOf(decision), RAG)
       => /\ \A i \in PositionsOf("token"), j \in PositionsOf("references") : j < i
          /\ \A i \in PositionsOf("token"), j \in PositionsOf("sources") : i < j

C3_Witness ==
  /\ pc = "end"
  /\ LastEvent.type = "done"
  /\ StrictEqualsStr(primaryOf(decision), RAG)
  /\ Len(searchResult.references) = 2
  /\ Len(fragments) >= 2

\* in a stream of the route 'both': one chart event at most, and it follows
\* every references, token and sources event
ChartAfterRetrieval ==
  /\ Cardinality(PositionsOf("chart")) <= 1
  /\ \A c \in PositionsOf("chart") :
       \A i \in PositionsOf("references") \cup PositionsOf("token") \cup PositionsOf("sources") :
         i < c

\* C4 as stated: every query whose primary label is 'both' has exactly one
\* chart event, after every retrieval event.
C4_OneChartForEveryBothQuery ==
  (pc = "end" /\ StrictEqualsStr(primaryOf(decision), BOTH))
    => Cardinality(PositionsOf("chart")) = 1 /\ ChartAfterRetrieval

\* C4, amended: a query whose primary label is 'both' and whose stream ends with
\* done has exactly one chart event, carrying the whole chart payload, after
\* every references, token and sources event, with or without a sequencing cue
\* word in the query; a stream that ends with error has at most one chart
\* event, placed the same way.
C4_ChartOnceAfterRetrieval ==
  StrictEqualsStr(primaryOf(decision), BOTH)
    => /\ ChartAfterRetrieval
       /\ \A c \in PositionsOf("chart") : events[c].data = chartToolExecute(query)
       /\ (pc = "end" /\ LastEvent.type = "done")
            => Cardinality(PositionsOf("chart")) = 1

C4_Witness ==
  /\ pc = "end"
  /\ LastEvent.type = "done"
  /\ StrictEqualsStr(primaryOf(decision), BOTH)
  /\ ~wantsSequential(query)
  /\ Emitted("references") /\ Emitted("token") /\ Emitted("sources") /\ Emitted("chart")

\* in a reference list every retrieval reference precedes every chart reference
RetrievalBeforeChart(list) ==
  \A i \in 1..Len(list), j \in 1..Len(list) :
    (list[i].type = "rag" /\ list[j].type = "chart") => i < j

\* C5: in the final reference list (the done payload of processQueryStream and
\* the data of aggregatorNode) every retrieval reference comes before the chart
\* reference, whichever of retrieval and chart generation completed first.
C5_RetrievalBeforeChart ==
  /\ RetrievalBeforeChart(data)
  /\ RetrievalBeforeChart(stateData)
  /\ pc \in StreamPositions =>
       \A i \in PositionsOf("done") : RetrievalBeforeChart(events[i].data)
  /\ pc = "wfEnd" /\ caught = NotCaught =>
       /\ events[Len(events)].data = stateData
       /\ stateData = aggregatorNode(ragResults, chartConfig, <<>>).data
                        \o SelectSeq(stateData, LAMBDA r : r.type = "image")

C5_Witness ==
  /\ pc = "wfEnd"
  /\ joinOrder = <<"chart", "rag">>
  /\ Len(stateData) = 3
  /\ stateData[3].type = "chart"

C5_WitnessStream ==
  /\ pc = "end"
  /\ LastEvent.type = "done"
  /\ Len(LastEvent.data) = 3
  /\ LastEvent.data[3].type = "chart"

RECURSIVE ItemsOf(_)
\* the reference items carried by references, chart and image events, in
\* emission order: the references themselves, the chart payload as the config
\* of a chart reference, the image result as the fields of an image reference
ItemsOf(evs) ==
  IF Len(evs) = 0 THEN <<>>
  ELSE LET e == evs[1]
       IN (CASE e.type = "references" -> e.data
             [] e.type = "chart" -> <<[type |-> "chart", config |-> e.data]>>
             [] e.type = "image" -> <<[type |-> "image", url |-> e.data.url,
                                       prompt |-> e.data.prompt, model |-> e.data.model]>>
             [] OTHER -> <<>>)
          \o ItemsOf(Tail(evs))

\* C6: the list of the done event is the concatenation, in emission order, of
\* the items carried by the references, chart and image events emitted before
\* it, and is empty when there was none.
C6_DoneListsEmittedItems ==
  \A i \in PositionsOf("done") : events[i].data = ItemsOf(SubSeq(events, 1, i - 1))

C6_Witness ==
  /\ pc = "end"
  /\ LastEvent.type = "done"
  /\ Emitted("references")
  /\ Emitted("chart")
  /\ Len(LastEvent.data) = 3

C6_WitnessEmpty ==
  /\ pc = "end"
  /\ LastEvent.type = "done"
  /\ LastEvent.data = <<>>
  /\ Emitted("token")

\* C7: with an attached image the route decision is exactly [image] and the
\* router's completion-model call is never made.
C7_AttachmentOverridesRouter ==
  Truthy(imageUrl)
    => /\ ~modelInvoked
       /\ response = NoText
       /\ \A i \in PositionsOf("route") : events[i].data.tools = <<JStr(IMAGE)>>
       /\ pc \notin {"start", "route"} => decision.tools = <<JStr(IMAGE)>>

C7_Witness ==
  /\ Truthy(imageUrl)
  /\ Emitted("route")
  /\ Emitted("image")
  /\ pc = "end"

\* C8: on an unparsable model response routerNode decides by the first rule
\* that matches, the response text being compared in lower case: it contains
\* 'image' -> [image]; else it contains 'chart' -> [chart]; else it contains
\* 'direct' or the query matches digits-operator-digits -> [direct]; else [rag].
C8_FallbackPriority ==
  Unparsable =>
    LET text == toLowerCase(response)
        image == includes(text, IMAGE)
        chart == includes(text, CHART)
        direct == includes(text, DIRECT) \/ ArithmeticPattern(query)
    IN /\ image => decision.tools = <<JStr(IMAGE)>>
       /\ (~image /\ chart) => decision.tools = <<JStr(CHART)>>
       /\ (~image /\ ~chart /\ direct) => decision.tools = <<JStr(DIRECT)>>
       /\ (~image /\ ~chart /\ ~direct) => decision.tools = <<JStr(RAG)>>

C8_Witness ==
  /\ Unparsable
  /\ includes(toLowerCase(response), IMAGE)
  /\ includes(toLowerCase(response), CHART)
  /\ ArithmeticPattern(query)

C8_WitnessRag ==
  /\ Unparsable
  /\ decision.tools = <<JStr(RAG)>>

\* C9 as stated: an arithmetic query without attachment is routed to direct
\* whenever the model response is unparsable.
C9_ArithmeticAlwaysDirect ==
  (Unparsable /\ ~Truthy(imageUrl) /\ ArithmeticPattern(query))
    => decision.tools = <<JStr(DIRECT)>>

\* C9, amended: an arithmetic query without attachment is routed to direct
\* whenever the model response is unparsable and its text, in lower case,
\* contains neither 'image' nor 'chart'.
C9_ArithmeticDirectUnlessKeyword ==
  (/\ Unparsable
   /\ ~Truthy(imageUrl)
   /\ ArithmeticPattern(query)
   /\ ~includes(toLowerCase(response), IMAGE)
   /\ ~includes(toLowerCase(response), CHART))
    => decision.tools = <<JStr(DIRECT)>>

C9_Witness ==
  /\ Unparsable
  /\ query = Q_ARITH
  /\ response = R_TEXT_NONE
  /\ decision.tools = <<JStr(DIRECT)>>

\* C10: when the model response parses as JSON the decision's label list is
\* non-empty: a bare scalar 'tools' is wrapped into a one-element list, and an
\* absent or empty 'tools' (the empty array included) gives [rag].
C10_ParsedToolsNonEmpty ==
  (Parsable /\ JSONparse(response).v.t # "null") =>
    LET ptools == GetProp(JSONparse(response).v, <<"t","o","o","l","s">>)
    IN /\ Len(decision.tools) > 0
       /\ (ptools.t \notin {"arr", "undefined"} /\ Truthy(ptools))
            => decision.tools = <<ptools>>
       /\ (ptools.t = "undefined" \/ ptools = JStr(<<>>) \/ ptools = JArr(<<>>))
            => decision.tools = <<JStr(RAG)>>

\* the labels of a ToolDecision
RouteLabels == {JStr(RAG), JStr(CHART), JStr(IMAGE), JStr(DIRECT), JStr(BOTH)}

\* C11: every decision carried by a route event has only labels drawn from
\* {rag, chart, image, direct, both}, and 'both' only as the single label of
\* its decision.
C11_RouteLabelsValid ==
  \A i \in PositionsOf("route") :
    LET tools == events[i].data.tools
    IN /\ \A k \in 1..Len(tools) : tools[k] \in RouteLabels
       /\ (\E k \in 1..Len(tools) : tools[k] = JStr(BOTH)) => Len(tools) = 1

\* C12: for every text the model returns to the router, routerNode returns a
\* decision and raises no failure, so that no error event follows from the
\* text of the answer.
C12_RouterNeverFails ==
  response # NoText =>
    /\ pc = "yieldRoute"
    /\ caught = NotCaught
    /\ ~Emitted("error")
    /\ decision = routerNode(query, response)

\* GeminiClient called on its own: the call has ended
ClientEnded ==
  pc \in {"generateReturned", "generateThrew",
          "generateStreamReturned", "generateStreamThrew"}

\* the first n invocations of the model raised rate-limit-shaped failures
RateLimitedFirst(n) ==
  /\ Len(modelLog) >= n
  /\ \A i \in 1..n : modelLog[i] # NotCaught /\ isRateLimitError(modelLog[i])

\* C13: when the model raises a rate-limit-shaped failure on its first three
\* invocations, generate does not give up but invokes it a fourth time, and
\* when that invocation succeeds generate returns its text and raises nothing.
C13_FourthTrySucceeds ==
  /\ (pc \in {"generate", "generateThrew"} /\ Len(modelLog) = 3 /\ RateLimitedFirst(3))
       => /\ pc = "generate"
          /\ caught = NotCaught
          /\ attempt = 3
  /\ (pc \in {"generateReturned", "generateThrew"} /\ RateLimitedFirst(3)
        /\ Len(modelLog) = 4 /\ modelLog[4] = NotCaught)
       => /\ pc = "generateReturned"
          /\ caught = NotCaught
          /\ response \in AnswerTexts

C13_Witness ==
  /\ pc = "generateReturned"
  /\ modelLog = <<E_429, E_RATE, E_429, NotCaught>>
  /\ response # <<>>
  /\ caught = NotCaught

\* the model invocations made so far by the call in progress
Invocations == Len(modelLog) + (IF streamOpen THEN 1 ELSE 0)

\* C14: generate and generateStream invoke the model at most 4 times per call,
\* the call has ended once the 4th invocation has failed or succeeded, the
\* wait before retry n (n = 0, 1, 2) is 2000 * 2^n ms, one wait per retry, and
\* every call ends by returning or raising.
C14_BoundedRetries ==
  /\ [](/\ Invocations <= 4
        /\ Len(modelLog) = 4 => ClientEnded
        /\ Len(delays) = attempt
        /\ Len(delays) <= 3
        /\ \A n \in 1..Len(delays) : delays[n] = <<2000, 4000, 8000>>[n]
        /\ ~ClientEnded => Len(delays) = Len(modelLog))
  /\ <>ClientEnded

C14_Witness ==
  /\ pc = "generateStreamThrew"
  /\ Len(modelLog) = 4
  /\ delays = <<2000, 4000, 8000>>
  /\ Len(fragments) > 0

\* C15: a failure of the model that is shaped like a permanent quota
\* exhaustion is not retried: the model is invoked once and the call raises the
\* daily-quota failure at once.
C15_QuotaNotRetried ==
  (Len(modelLog) >= 1 /\ modelLog[1] # NotCaught /\ isDailyQuotaExhausted(modelLog[1]))
    => /\ Len(modelLog) = 1
       /\ pc \in {"generateThrew", "generateStreamThrew"}
       /\ caught = E_DAILY_QUOTA
       /\ delays = <<>>

\* C16: a failure of the model that is neither rate-limit-shaped nor
\* quota-shaped ends the call on the invocation that raised it and is raised
\* to the caller as it is; a rate-limit-shaped failure that is not
\* quota-shaped and is raised by the 4th invocation is raised to the caller
\* as it is.
C16_OtherFailuresUnchanged ==
  /\ \A i \in 1..Len(modelLog) :
       (/\ modelLog[i] # NotCaught
        /\ ~isRateLimitError(modelLog[i])
        /\ ~isDailyQuotaExhausted(modelLog[i]))
         => /\ i = Len(modelLog)
            /\ pc \in {"generateThrew", "generateStreamThrew"}
            /\ caught = modelLog[i]
  /\ (/\ Len(modelLog) = 4
      /\ modelLog[4] # NotCaught
      /\ isRateLimitError(modelLog[4])
      /\ ~isDailyQuotaExhausted(modelLog[4]))
       => /\ pc \in {"generateThrew", "generateStreamThrew"}
          /\ caught = modelLog[4]

C16_Witness ==
  /\ pc = "generateThrew"
  /\ modelLog = <<E_429, E_429, E_429, E_429>>
  /\ caught = E_429

C16_WitnessOther ==
  /\ pc = "generateStreamThrew"
  /\ modelLog = <<E_RATE, E_NETWORK>>
  /\ caught = E_NETWORK
  /\ Len(fragments) > 0

\* C17: in generateStream, once a fragment has been yielded, a failure of the
\* model stream is not retried: the call ends on it, raising the failure as
\* the model raised it.
C17_NoRetryAfterFirstFragment ==
  [][(/\ pc = "generateStream"
      /\ Len(fragments) > 0
      /\ Len(modelLog') = Len(modelLog) + 1
      /\ modelLog'[Len(modelLog')] # NotCaught)
       => /\ pc' = "generateStreamThrew"
          /\ caught' = modelLog'[Len(modelLog')]
          /\ attempt' = attempt
          /\ delays' = delays]_vars

\* the position in the model's answer of the fragment f, 0 if it is none
FragmentIndex(f) ==
  IF \E k \in 1..MaxChunks : FragmentOf(k) = f
    THEN CHOOSE k \in 1..MaxChunks : FragmentOf(k) = f
    ELSE 0

\* C18: in the retrieval and direct routes the token events deliver fragments
\* of the model's answer in the order of the answer, each at most once.
C18_FragmentsInOrderOnce ==
  branchOf(decision) \in {"search", "stream"} =>
    LET tokens == SelectSeq(events, LAMBDA e : e.type = "token")
    IN \A i \in 1..Len(tokens), j \in 1..Len(tokens) :
         i < j => /\ FragmentIndex(tokens[i].data) > 0
                  /\ FragmentIndex(tokens[i].data) < FragmentIndex(tokens[j].data)

(***************************************************************************)
(* Retrieval: the distance threshold and the grouping of references.       *)
(***************************************************************************)
SemanticEnded == pc \in {"searched", "queried"}
RetrievalEnded == SemanticEnded \/ pc \in {"searchedByKeyword", "queriedByKeyword"}

\* the object carries a distance, and it is below 0.45
Within(obj) == obj.hasDistance /\ obj.distance * 100 < 45 * 10000

SameRecord(result, obj) ==
  /\ result.fileId = obj.fileId
  /\ result.pageNumber = obj.pageNumber
  /\ result.answer = obj.answer
  /\ result.question = obj.question
  /\ result.distance = obj.distance

\* C19: after the semantic search of search or query, the results are the
\* returned objects whose distance is strictly below 0.45, in the order
\* returned: an object at 0.45 or without distance metadata is never a
\* result, an object at 0.4499 always is.
C19_StrictThreshold ==
  SemanticEnded =>
    LET kept == SelectSeq(storeResponse, Within)
        results == searchResult.results
    IN /\ Len(results) = Len(kept)
       /\ \A i \in 1..Len(kept) : SameRecord(results[i], kept[i])
       /\ \A i \in 1..Len(storeResponse) :
            LET obj == storeResponse[i]
                isResult == \E j \in 1..Len(results) : SameRecord(results[j], obj)
            IN /\ (obj.hasDistance /\ obj.distance = 4500) => ~isResult
               /\ (obj.hasDistance /\ obj.distance = 4499) => isResult
               /\ ~obj.hasDistance => ~isResult

\* search met an object at 0.45 and one at 0.4499, and kept the second only
C19_Witness ==
  /\ pc = "searched"
  /\ storeResponse = <<O_FAR, O_SALES>>
  /\ Len(searchResult.results) = 1
  /\ searchResult.results[1].distance = 4499

\* query met an object without distance metadata, and kept nothing
C19_WitnessNoDistance ==
  /\ pc = "queried"
  /\ storeResponse = <<O_NODIST>>
  /\ searchResult.results = <<>>

OrdinalTexts == <<<<"1">>, <<"2">>, <<"3">>, <<"4">>, <<"5">>>>

\* the position in results of the first candidate of the file
FirstSeen(results, fileId) ==
  CHOOSE i \in 1..Len(results) :
    /\ results[i].fileId = fileId
    /\ \A j \in 1..(i - 1) : results[j].fileId # fileId

\* C20: the references of a call carry the displayIds "1".."N" in order, N
\* being the number of distinct fileIds among the kept candidates; no two
\* references share a fileId, and the references follow the order in which
\* their files are first seen among the candidates.
C20_DenseDisplayIds ==
  RetrievalEnded =>
    LET results == searchResult.results
        references == searchResult.references
        N == Cardinality({results[i].fileId : i \in 1..Len(results)})
    IN /\ Len(references) = N
       /\ \A i \in 1..N : references[i].displayId = OrdinalTexts[i]
       /\ \A i, j \in 1..N : i # j => references[i].fileId # references[j].fileId
       /\ \A i \in 1..N : \E j \in 1..Len(results) : results[j].fileId = references[i].fileId
       /\ \A i, j \in 1..N :
            i < j => FirstSeen(results, references[i].fileId)
                       < FirstSeen(results, references[j].fileId)

\* two candidates of one file were merged into the reference "1"
C20_Witness ==
  /\ RetrievalEnded
  /\ Len(searchResult.results) = 2
  /\ Len(searchResult.references) = 1
  /\ searchResult.references[1].displayId = <<"1">>

\* candidates of two files gave the references "1" and "2" in first-seen order
C20_WitnessTwoFiles ==
  /\ RetrievalEnded
  /\ storeResponse = <<O_COSTS, O_SALES>>
  /\ Len(searchResult.references) = 2
  /\ searchResult.references[1].fileId = <<"b",".","p","d","f">>
  /\ searchResult.references[2].displayId = <<"2">>

RECURSIVE Flatten(_)
\* the concatenation of a list of lists
Flatten(lists) ==
  IF Len(lists) = 0 THEN <<>> ELSE lists[1] \o Flatten(Tail(lists))

\* the pages of the candidates of one file, in candidate order
PagesSeen(results, fileId) ==
  LET ofFile == SelectSeq(results, LAMBDA r : r.fileId = fileId)
  IN Flatten([i \in 1..Len(ofFile) |-> ofFile[i].pageNumber])

\* the position of the first occurrence of page in the list seen
FirstPage(seen, page) ==
  CHOOSE i \in 1..Len(seen) : seen[i] = page /\ \A j \in 1..(i - 1) : seen[j] # page

\* C21: each reference lists every page of its file's candidates exactly
\* once, in the order in which the pages are first seen.
C21_PagesOnceInOrder ==
  RetrievalEnded =>
    \A k \in 1..Len(searchResult.references) :
      LET ref == searchResult.references[k]
          seen == PagesSeen(searchResult.results, ref.fileId)
      IN /\ {ref.pages[i] : i \in 1..Len(ref.pages)} = {seen[i] : i \in 1..Len(seen)}
         /\ \A i, j \in 1..Len(ref.pages) : i # j => ref.pages[i] # ref.pages[j]
         /\ \A i, j \in 1..Len(ref.pages) :
              i < j => FirstPage(seen, ref.pages[i]) < FirstPage(seen, ref.pages[j])

\* ragAgent.search returns the candidates results to processQueryStream
SearchReturned(results) ==
  /\ searchResult' = searchResultOf(query, results)
  /\ pc' \in {"yieldReferences", "stream"}
  /\ caught' = NotCaught
  /\ events' = events

\* C22: a step that ends the similarity search never fails search: either
\* the search returns its own candidates, none included, without a full scan,
\* or the full scan starts; and a step that ends the full scan returns the
\* scanned objects that the keyword heuristic accepts, or is the failure of
\* the scan reaching the caller.
C22_FallbackOnSearchFailure ==
  [][/\ (pc = "nearText" /\ pc' # pc) =>
          \/ \E objects \in ObjectLists(StoreObjects, MaxObjects) :
               SearchReturned(semanticResults(objects))
          \/ pc' = "fetchObjects" /\ UNCHANGED <<searchResult, caught, events>>
     /\ (pc = "fetchObjects" /\ pc' # pc) =>
          \/ \E objects \in ObjectLists(StoreObjects, MaxObjects) :
               SearchReturned(keywordResults(query, objects))
          \/ pc' = "end" /\ caught' = E_STORE /\ searchResult' = searchResult]_vars

\* the similarity search failed, and the full scan gave a candidate that the
\* keyword heuristic accepted: it is sent on with distance 0
C22_Witness ==
  /\ pc \in {"yieldReferences", "stream"}
  /\ caught = NotCaught
  /\ Len(searchResult.results) > 0
  /\ searchResult.results[1].distance = 0

\* on the retrieval route, ragAgent.search has returned
SearchDone == branchOf(decision) = "search" /\ searchResult # NoSearchResult

\* C23: once retrieval has returned, the prompt of the model stream is the
\* grounded one with its context if and only if a candidate was kept, and the
\* no-context one otherwise; with no candidate kept there is no references
\* and no sources event, and a query that ends without failure ends with a
\* done event that lists no retrieval reference.
C23_NoCandidatesNoContext ==
  SearchDone =>
    LET kept == Len(searchResult.results)
    IN /\ kept > 0 <=> streamPrompt.template = "grounded" /\ streamPrompt.context # <<>>
       /\ kept = 0 <=> streamPrompt.template = "no-context" /\ streamPrompt.context = <<>>
       /\ streamPrompt.query = query
       /\ kept = 0 =>
            /\ ~Emitted("references")
            /\ ~Emitted("sources")
            /\ (pc = "end" /\ caught = NotCaught) =>
                 /\ LastEvent.type = "done"
                 /\ \A i \in 1..Len(LastEvent.data) : LastEvent.data[i].type # "rag"

\* a retrieval query with no candidate kept ended with tokens and an empty done
C23_Witness ==
  /\ SearchDone
  /\ searchResult.results = <<>>
  /\ pc = "end"
  /\ Emitted("token")
  /\ LastEvent = Event("done", <<>>)

(***************************************************************************)
(* The event sequences of the chart, direct and image routes.              *)
(***************************************************************************)
\* the events so far are the first events of a sequence of the types given
FollowsTypes(types) ==
  /\ Len(events) <= Len(types)
  /\ \A i \in 1..Len(events) : events[i].type = types[i]

\* the query ended without a failure
Completed == pc = "end" /\ caught = NotCaught

\* C24: on the chart route no model stream is opened, and unless the chart
\* tool fails the events are thinking, route with the decision, chart, token
\* with the confirmation sentence, done with one chart reference that holds
\* the payload of the chart event, all five once the query has ended.
C24_ChartRouteSequence ==
  branchOf(decision) = "chart" =>
    /\ ~streamOpen /\ fragments = <<>> /\ token = NoText
    /\ caught = NotCaught =>
         /\ FollowsTypes(<<"thinking", "route", "chart", "token", "done">>)
         /\ Len(events) >= 2 => events[2].data = decision
         /\ Len(events) >= 3 /\ query = Q_PIE => events[3].data.type = <<"p","i","e">>
         /\ Len(events) >= 4 =>
              events[4].data = <<"H","e","r","e"," ","i","s"," ","t","h","e"," ","r","e","q","u","e","s","t","e","d"," ","c","h","a","r","t"," ","c","o","n","f","i","g","u","r","a","t","i","o","n",".">>
         /\ Len(events) = 5 =>
              events[5].data = <<[type |-> "chart", config |-> events[3].data]>>
         /\ pc = "end" => Len(events) = 5

\* the query "Show me a pie chart" ended on the chart route with its five events
C24_Witness ==
  /\ Completed
  /\ branchOf(decision) = "chart"
  /\ query = Q_PIE
  /\ Len(events) = 5
  /\ events[3] = Event("chart", [type |-> <<"p","i","e">>])

\* C25: on the direct route the knowledge store is not accessed and no
\* references, sources, chart or image event is emitted; unless the model
\* stream fails the events are thinking, route with the decision, one token
\* per fragment that generateStream yields, in that order, then done with an
\* empty list, and the stream is asked the direct prompt for the query.
C25_DirectRouteSequence ==
  StrictEqualsStr(primaryOf(decision), DIRECT) =>
    /\ ~storeQueried /\ searchResult = NoSearchResult
    /\ ~Emitted("references") /\ ~Emitted("sources")
    /\ ~Emitted("chart") /\ ~Emitted("image")
    /\ streamPrompt = Prompt("direct", query, <<>>)
    /\ caught = NotCaught =>
         LET n == Cardinality(PositionsOf("token"))
         IN /\ FollowsTypes(<<"thinking", "route">> \o Repeat("token", n) \o <<"done">>)
            /\ Len(events) >= 2 => events[2].data = decision
            /\ n <= Len(fragments)
            /\ \A i \in 1..n : events[2 + i].data = fragments[i]
            /\ pc = "end" =>
                 /\ n = Len(fragments)
                 /\ Len(events) = n + 3
                 /\ LastEvent = Event("done", <<>>)

\* a direct query ended with one token between route and done
C25_Witness ==
  /\ Completed
  /\ StrictEqualsStr(primaryOf(decision), DIRECT)
  /\ TypesOf(events) = <<"thinking", "route", "token", "done">>
  /\ events[3].data = fragments[1]

\* C26: on the image route, unless the image tool fails, the events are
\* thinking, route with the decision, image, token with the confirmation
\* sentence that quotes the query, done with one image reference that holds
\* the url, prompt and model of the image event, all five once the query
\* has ended.
C26_ImageRouteSequence ==
  (branchOf(decision) = "image" /\ caught = NotCaught) =>
    /\ FollowsTypes(<<"thinking", "route", "image", "token", "done">>)
    /\ Len(events) >= 2 => events[2].data = decision
    /\ Len(events) >= 4 =>
         events[4].data = <<"H","e","r","e"," ","i","s"," ","t","h","e"," ","g","e","n","e","r","a","t","e","d"," ","i","m","a","g","e"," ","f","o","r",":"," ","\"">> \o query \o <<"\"">>
    /\ Len(events) = 5 =>
         events[5].data = <<[type |-> "image", url |-> events[3].data.url,
                             prompt |-> events[3].data.prompt,
                             model |-> events[3].data.model]>>
    /\ pc = "end" => Len(events) = 5

\* a query with an attached image ended on the image route with its five events
C26_Witness ==
  /\ Completed
  /\ branchOf(decision) = "image"
  /\ Truthy(imageUrl)
  /\ TypesOf(events) = <<"thinking", "route", "image", "token", "done">>
  /\ events[3].data.prompt = query

(***************************************************************************)
(* The aggregator.                                                         *)
(***************************************************************************)
ChartMarker == <<"\n","\n","[","C","h","a","r","t"," ","c","o","n","f","i","g","u","r","a","t","i","o","n"," ","i","n","c","l","u","d","e","d"," ","i","n"," ","d","a","t","a","]">>
ChartPlaceholder == <<"H","e","r","e"," ","i","s"," ","t","h","e"," ","r","e","q","u","e","s","t","e","d"," ","c","h","a","r","t"," ","c","o","n","f","i","g","u","r","a","t","i","o","n",".">>

\* the text of the retrieval output, empty when there is none
RagText == IF ragResults.defined THEN ragResults.answer ELSE <<>>

\* C27: the aggregator step writes the finalAnswer that the rule gives for
\* the channels it reads: the retrieval answer, with the marker sentence
\* appended when a chart is present too; the placeholder sentence when a
\* chart is present and there is no retrieval text; the direct answer when
\* there is neither; and the data are the retrieval references followed by
\* the chart reference.
C27_AggregatorRule ==
  [][pc = "wfAggregator" =>
       LET hasChart == chartConfig # NoChartConfig
           expected ==
             CASE RagText # <<>> /\ hasChart -> RagText \o ChartMarker
               [] RagText # <<>> /\ ~hasChart -> RagText
               [] RagText = <<>> /\ hasChart -> ChartPlaceholder
               [] OTHER -> finalAnswer
           items ==
             (IF ragResults.defined THEN ragResults.references ELSE <<>>)
               \o (IF hasChart THEN <<[type |-> "chart", config |-> chartConfig]>>
                   ELSE <<>>)
       IN /\ finalAnswer' = expected
          /\ stateData' = IF Len(items) > 0 THEN items ELSE stateData]_vars

\* the aggregator appended the marker to a retrieval answer, over a direct answer
C27_Witness ==
  /\ pc = "wfYieldWords"
  /\ ragResults.defined
  /\ ragResults.answer # <<>>
  /\ chartConfig # NoChartConfig
  /\ finalAnswer = ragResults.answer \o ChartMarker
  /\ Len(stateData) = 2

\* the aggregator kept the direct answer: no retrieval text and no chart
C27_WitnessDirect ==
  /\ pc = "wfYieldWords"
  /\ ragResults.defined /\ ragResults.answer = <<>>
  /\ chartConfig = NoChartConfig
  /\ finalAnswer = <<"4","2">>

(***************************************************************************)
(* The streaming and the non-streaming mode on one query.                  *)
(***************************************************************************)
\* the non-streaming run has ended without failure, having met what the
\* streaming run met: the decision, the candidates kept, the model's text
\* and the image
SameOutcomes ==
  /\ streamed.ended
  /\ pc = "wfEnd"
  /\ caught = NotCaught
  /\ decision = streamed.decision
  /\ searchResult.results = streamed.results
  /\ nodeOf(decision) = "rag" => ragResults.answer = ragAnswer(searchResult, streamed.text)
  /\ nodeOf(decision) = "direct" => finalAnswer = streamed.text
  /\ nodeOf(decision) = "image" => stateData = streamed.data

\* C28: when both runs met the same outcomes, processQuerySync returns the
\* concatenation of the streaming run's token payloads as its answer and
\* the payload of the done event as its data.
C28_ModesAgree ==
  SameOutcomes =>
    LET sync == processQuerySync(events, [answer |-> <<>>, data |-> <<>>])
    IN /\ sync.answer = streamed.answer
       /\ sync.data = streamed.data

(***************************************************************************)
(* Retrieval and chart generation of a query routed to 'both'.             *)
(***************************************************************************)
\* retrieval of a query routed to 'both' is under way: search or query has
\* been called and the answer is not complete
RetrievalUnderWay ==
  /\ StrictEqualsStr(primaryOf(decision), BOTH)
  /\ pc \in {"search", "nearText", "fetchObjects", "yieldReferences", "stream",
             "yieldToken", "yieldSources",
             "wfSearch", "wfNearText", "wfFetchObjects", "wfAnswer"}

\* chartTool.execute has been called for the query
ChartStarted == pcChart \in {"pending", "done", "failed"} \/ pc \in {"chartAlso"}

\* C29: while retrieval of a query routed to 'both' is under way, chart
\* generation has been started if and only if the query has no cue word.
C29_CueDecidesOrder ==
  RetrievalUnderWay => (ChartStarted <=> ~wantsSequential(query))

\* the workflow has reached the aggregator, or gone past it without failure
AtOrPastAggregator ==
  pc \in {"wfAggregator", "wfYieldWords"} \/ (pc = "wfEnd" /\ caught = NotCaught)

\* C30: when ragNode ran retrieval and chart generation concurrently, the
\* aggregator is reached only with both branches complete: the retrieval
\* output and the chart output are both present, whichever completed first.
C30_JoinBeforeAggregation ==
  (AtOrPastAggregator /\ nodeOf(decision) = "rag" /\ needsChart(decision)
     /\ ~wantsSequential(query)) =>
    /\ pcChart = "done"
    /\ ragResults.defined
    /\ chartConfig = chartToolExecute(query)
    /\ joinOrder \in {<<"rag", "chart">>, <<"chart", "rag">>}

\* the aggregator is reached after the chart branch completed first
C30_Witness ==
  /\ pc = "wfAggregator"
  /\ ~wantsSequential(query)
  /\ joinOrder = <<"chart", "rag">>
  /\ ragResults.defined

\* the aggregator is reached after retrieval completed first
C30_WitnessRagFirst ==
  /\ pc = "wfAggregator"
  /\ ~wantsSequential(query)
  /\ joinOrder = <<"rag", "chart">>
  /\ chartConfig # NoChartConfig

\* the router's call failed: the query was caught before a decision was taken
RouterFailed == caught # NotCaught /\ decision = NoDecision

\* a decision was taken and announced, or the query is past the announcement
Routed == decision # NoDecision /\ pc # "yieldRoute"

\* C31: every stream starts with a thinking event, emitted before the
\* router's model is called; when the router's call fails the stream is
\* exactly thinking, error with no route event; when routing succeeds there
\* is exactly one route event, it is second in the stream and precedes every
\* references, token, chart, image, sources and done event.
C31_ThinkingThenRoute ==
  /\ (pc # "start") => (Len(events) >= 1 /\ events[1].type = "thinking")
  /\ (pc = "start") => (events = <<>> /\ ~modelInvoked)
  /\ PositionsOf("thinking") \subseteq {1}
  /\ RouterFailed => (pc = "end" /\ TypesOf(events) = <<"thinking", "error">>)
  /\ Routed => PositionsOf("route") = {2}
  /\ ~Routed => ~Emitted("route")
  /\ \A i \in 1..Len(events) :
       events[i].type \in {"references", "token", "chart", "image", "sources", "done"}
         => (i > 2 /\ events[2].type = "route")

\* both cases of C31 are reached: a router failure after a model call, and a
\* completed query whose route event is second
C31_WitnessFailure == RouterFailed /\ modelInvoked /\ Len(events) = 2
C31_Witness ==
  /\ Completed /\ Routed /\ modelInvoked
  /\ events[2] = Event("route", decision)
  /\ Emitted("token") /\ Emitted("done")

\* the lower-cased text ChartTool.execute searches: empty when there is no argument
ChartText == IF input = JUndefined THEN <<>> ELSE toLowerCase(input.s)

\* C32: ChartTool.execute returns the pie payload when the lower-cased text
\* contains 'pie', else the line payload when it contains 'line', else the
\* bar payload, also for an absent or empty text; it calls no model, and the
\* payload is a function of the text.
C32_ChartKindPrecedence ==
  (pc = "chartDone") =>
    /\ includes(ChartText, <<"p","i","e">>) => chartConfig = chartConfigs[<<"p","i","e">>]
    /\ (~includes(ChartText, <<"p","i","e">>) /\ includes(ChartText, <<"l","i","n","e">>))
         => chartConfig = chartConfigs[<<"l","i","n","e">>]
    /\ (~includes(ChartText, <<"p","i","e">>) /\ ~includes(ChartText, <<"l","i","n","e">>))
         => chartConfig = chartConfigs[<<"b","a","r">>]
    /\ ~modelInvoked /\ modelLog = <<>>

\* a text in mixed case holding both words was classified, as a pie chart
C32_Witness ==
  /\ pc = "chartDone"
  /\ input = JStr(<<"L","I","N","E","P","i","e">>)
  /\ chartConfig = chartConfigs[<<"p","i","e">>]

\* the absent argument was classified, as a bar chart
C32_WitnessAbsent ==
  pc = "chartDone" /\ input = JUndefined /\ chartConfig = chartConfigs[<<"b","a","r">>]

\* the image references of a list of response data
ImageItems(items) == SelectSeq(items, LAMBDA d : d.type = "image")

\* the model identifier of the mode the claim assigns to the request
ModeOf(url) == IF Truthy(url) THEN <<"k","o","n","t","e","x","t">> ELSE <<"f","l","u","x">>

\* C33: the image executor uses edit mode (model 'kontext') if and only if a
\* source image URL is supplied and text-to-image mode (model 'flux')
\* otherwise, so that for a query with an attached image the image event and
\* the image reference of done carry the edit-mode model identifier.
C33_EditModeIffSourceImage ==
  /\ \A i \in PositionsOf("image") : events[i].data.model = ModeOf(imageUrl)
  /\ \A i \in PositionsOf("done") :
       \A k \in 1..Len(ImageItems(events[i].data)) :
         ImageItems(events[i].data)[k].model = ModeOf(imageUrl)

\* C34: chart generation is run alongside retrieval exactly when the primary
\* label of the decision is 'both', in the streaming orchestrator and in the
\* workflow alike: a decision [rag, both] gives a chart in neither mode, a
\* decision [both] in both.
C34_ChartIffPrimaryBoth ==
  /\ (Completed /\ branchOf(decision) = "search") =>
       (Emitted("chart") <=> StrictEqualsStr(primaryOf(decision), BOTH))
  /\ (AtOrPastAggregator /\ nodeOf(decision) = "rag") =>
       (chartConfig # NoChartConfig <=> StrictEqualsStr(primaryOf(decision), BOTH))

\* the decision's primary label is one the orchestrator has a branch for
NamedRoute ==
  \E w \in {RAG, BOTH, CHART, IMAGE} : StrictEqualsStr(primaryOf(decision), w)

\* a decision was taken whose primary label is missing or names no branch
UnnamedRoute == decision # NoDecision /\ ~NamedRoute

\* C35: in processQueryStream a decision whose primary label is missing or
\* is none of rag, both, chart, image runs the direct route: the knowledge
\* store is never queried, and unless the model stream fails the events are
\* thinking, route, one token per fragment of the answer to the direct
\* prompt, done with an empty list.
C35_UnnamedRouteIsDirect ==
  UnnamedRoute =>
    /\ ~storeQueried /\ searchResult = NoSearchResult
    /\ ~Emitted("references") /\ ~Emitted("sources")
    /\ ~Emitted("chart") /\ ~Emitted("image")
    /\ pc \in {"yieldRoute", "stream", "yieldToken", "yieldDone", "end"}
    /\ (pc # "yieldRoute") => streamPrompt = Prompt("direct", query, <<>>)
    /\ caught = NotCaught =>
         LET n == Cardinality(PositionsOf("token"))
         IN /\ FollowsTypes(<<"thinking", "route">> \o Repeat("token", n) \o <<"done">>)
            /\ \A i \in 1..n : events[2 + i].data = fragments[i]
            /\ pc = "end" =>
                 /\ n = Len(fragments)
                 /\ LastEvent = Event("done", <<>>)

\* a query whose decision names an unknown label ended as a direct query
C35_Witness ==
  /\ Completed
  /\ StrictEqualsStr(primaryOf(decision), <<"v","i","d","e","o">>)
  /\ TypesOf(events) = <<"thinking", "route", "token", "done">>
  /\ modelInvoked

\* a query whose decision has an empty label list ended as a direct query
C35_WitnessEmpty ==
  /\ Completed
  /\ decision # NoDecision /\ toolsOf(decision) = <<>>
  /\ TypesOf(events) = <<"thinking", "route", "token", "done">>

\* the keyword fallback of search or of query has run
FallbackEnded == pc \in {"searchedByKeyword", "queriedByKeyword"}

\* the fallback scan accepts the record for the query
Accepted(obj) == isRelevant(query, obj.question, obj.answer)

\* C36: whenever the keyword fallback has run, the results are the scanned
\* records that the fallback accepts, in scan order and each with distance
\* 0: no candidate of the semantic search is kept, and no record appears
\* twice.
C36_FallbackResultsOnly ==
  FallbackEnded =>
    LET results == searchResult.results
        accepted == SelectSeq(storeResponse, Accepted)
    IN /\ Len(results) = Len(accepted)
       /\ \A i \in 1..Len(results) : results[i] = Candidate(accepted[i], 0)
       /\ \A i, j \in 1..Len(results) : i # j => results[i] # results[j]

\* the fallback ran on a record that the semantic search would have kept as
\* well, and the record is in the results once, with distance 0
C36_Witness ==
  /\ pc = "searchedByKeyword"
  /\ query = Q_THEN
  /\ storeResponse = <<O_SALES, O_FAR>>
  /\ Within(O_SALES)
  /\ searchResult.results = <<Candidate(O_SALES, 0)>>

\* what processQuerySync returns for the chunks yielded so far
SyncResponse == processQuerySync(events, [answer |-> <<>>, data |-> <<>>])

\* the answer of the chunk that the catch block of processQuery yields
ErrorText(error) ==
  <<"E","r","r","o","r"," ","p","r","o","c","e","s","s","i","n","g"," ","q","u","e","r","y",":"," ">>
    \o (IF error.isError THEN error.message ELSE <<"U","n","k","n","o","w","n"," ","e","r","r","o","r">>)

\* C37: processQuery never raises to its consumer: when the workflow fails,
\* at whichever node, processQuery has yielded exactly one chunk, with the
\* answer 'Error processing query: ' and the message and with empty data,
\* and has ended; processQuerySync returns that chunk as its response.
C37_FailureIsOneChunk ==
  /\ (caught # NotCaught) =>
       /\ pc = "wfEnd"
       /\ events = <<Chunk(ErrorText(caught), <<>>)>>
       /\ SyncResponse = [answer |-> ErrorText(caught), data |-> <<>>]
  /\ (pc = "wfEnd") => Len(events) >= 1

\* the workflow failed in the retrieval node, on the store
C37_Witness ==
  /\ pc = "wfEnd"
  /\ caught = E_STORE
  /\ nodeOf(decision) = "rag"
  /\ Len(events) = 1

\* the workflow failed at the router's edge, and in the chart node
C37_WitnessEdge == pc = "wfEnd" /\ caught = E_BRANCH /\ Len(events) = 1
C37_WitnessChart ==
  pc = "wfEnd" /\ caught # NotCaught /\ nodeOf(decision) = "chart" /\ Len(events) = 1

\* the text processQuery splits into words
SpokenAnswer == IF finalAnswer # <<>> THEN finalAnswer ELSE <<"N","o"," ","a","n","s","w","e","r"," ","g","e","n","e","r","a","t","e","d">>

\* processQuery has ended without a failure
WorkflowCompleted == pc = "wfEnd" /\ caught = NotCaught

C38_WitnessEmptyAnswer ==
  /\ WorkflowCompleted
  /\ finalAnswer = <<>>
  /\ SyncResponse.answer = <<"N","o"," ","a","n","s","w","e","r"," ","g","e","n","e","r","a","t","e","d">>

C38_WitnessData == WorkflowCompleted /\ SyncResponse.data # <<>>

\* the connections that are open: resolved by a connect call and not closed
LiveConnections == {connection.opened[i] : i \in 1..Len(connection.opened)} \ connection.closed

\* the callers that getWeaviateClient has returned a handle to
Served == {c \in DOMAIN connection.pcOf : connection.pcOf[c] = "returned"}

\* C39: for every interleaving of concurrent getWeaviateClient calls, at
\* most one connection is opened while no close intervenes and every caller
\* receives the same handle; after closeWeaviateClient the handle is cleared
\* and the next call opens a new connection.
C39_OneSharedConnection ==
  /\ Cardinality(LiveConnections) <= 1
  /\ connection.closing = "idle" =>
       \A c, d \in Served : connection.got[c] = connection.got[d]
  /\ client \notin connection.closed

====
